---- MODULE Spec2Model ----
(***************************************************************************)
(* Model of the Mermaid diagram lifecycle of zed-mermaid-plugin: the SVG   *)
(* sanitizer (lsp/src/render.rs), the digest-addressed cache               *)
(* (src/cache.rs) and the document scanner and edit builder                *)
(* (lsp/src/main.rs).                                                      *)
(*                                                                         *)
(* Text is a sequence of one-character strings, so that the regular        *)
(* expressions and string searches of the code are computed character by   *)
(* character.                                                              *)
(***************************************************************************)
EXTENDS Integers, Sequences, FiniteSets, TLC

VARIABLES
  svg,          \* sanitizer: the raw SVG text handed to sanitize_svg
  nfrags,       \* sanitizer: how many fragments svg was assembled from
  sanPc,        \* sanitizer: "build" while the input is assembled, "done" after the call
  sanitized,    \* sanitizer: the Result of sanitize_svg(svg): [ok, out]
  cacheRoot,    \* cache: whether the directory cache_dir exists
  cacheFiles,   \* cache: the entries of cache_dir, file name -> entry
  outsideFile,  \* cache: the one file outside cache_dir a symlink may point to
  cacheOp,      \* cache: the last call and what it returned
  lastPut,      \* cache: per digest, the content of the last put that returned Ok
  documents,    \* server: the open documents, uri -> full text
  files,        \* server: the files on disk, absolute path -> content
  clock,        \* server: the local time, in seconds
  offers,       \* server: the code actions of the last codeAction response
  nreq,         \* server: how many requests were handled
  roundTrip,    \* server: the fence whose render edit the host applied last
  pkgVersion,   \* server: CARGO_PKG_VERSION of the running build
  cacheTag,     \* server: per cache file, the version of the build that wrote it
  served,       \* server: the versions that wrote the cache files the last request found
  valSource,    \* validator: the source handed to validate, as repeated blocks
  valPc,        \* validator: "build" while the source is assembled, "done" after the call
  valResult,    \* validator: the Result of validate(valSource)
  scanLines,    \* scanner: the lines handed to find_all_mermaid_fences
  scanPc,       \* scanner: "build" while the lines are assembled, "done" after the call
  scanFences,   \* scanner: the fences find_all_mermaid_fences(scanLines) returned
  scanBlocks,   \* scanner: the blocks find_all_rendered_blocks(scanLines) returned
  scanCursor,   \* scanner: the cursor line of the lookup
  scanAt,       \* scanner: what find_mermaid_fence(scanLines, scanCursor) returned
  scanSource,   \* scanner: the edits of find_source_edit_at_cursor at scanCursor
  hashCalls,    \* digests: the calls made so far, each with its source and its results
  applyEdit,    \* commands: the edits of the workspace/applyEdit request in flight, <<>> for none
  cmd,          \* commands: the last workspace/executeCommand, with the text and files it found
  cmdTrip,      \* commands: how far a render-all followed by an edit-all has come
  notified,     \* store: for each document what the last notification about it told the server
  loopInput,    \* conversion loop: the text convert_foreign_objects was called with
  loopResult,   \* conversion loop: the local result
  loopIter,     \* conversion loop: the iterations of the while-let loop so far
  loopPc,       \* conversion loop: "build" before the call, "loop" at the head of the loop, "done" after the return
  mmdcEnv,      \* discovery: the environment variables MMDC_PATH and PATH of the server process
  mmdcFs,       \* discovery: what the file system holds at each path: "file", "exec" or "dir"
  mmdcPc,       \* discovery: "build" before find_mmdc is called, "done" after
  mmdcResult,   \* discovery: the Result of find_mmdc, and whether PATH was searched
  reqLog,       \* main loop: the requests received so far, each with its id and its method
  outbox,       \* main loop: the messages the server sent so far
  reqPc,        \* main loop: "running", "stopped" once shutdown ended the loop
  raceSetup,    \* racing renders: the code both actions render, whether the renderer fails, whether the cache held it
  raceFs,       \* racing renders: the files of /w/.mermaid
  racePc,       \* racing renders: where each action is in create_render_edit
  raceSvg,      \* racing renders: the local svg of each action
  raceOff       \* racing renders: the offset of each action's open cache file

sanVars == <<svg, nfrags, sanPc, sanitized>>
cacheVars == <<cacheRoot, cacheFiles, outsideFile, cacheOp, lastPut>>
docVars == <<documents, files, clock, offers, nreq, roundTrip, pkgVersion, cacheTag, served>>
valVars == <<valSource, valPc, valResult>>
scanVars == <<scanLines, scanPc, scanFences, scanBlocks, scanCursor, scanAt, scanSource>>
hashVars == <<hashCalls>>
cmdVars == <<applyEdit, cmd, cmdTrip>>
storeVars == <<notified>>
loopVars == <<loopInput, loopResult, loopIter, loopPc>>
mmdcVars == <<mmdcEnv, mmdcFs, mmdcPc, mmdcResult>>
reqVars == <<reqLog, outbox, reqPc>>
raceVars == <<raceSetup, raceFs, racePc, raceSvg, raceOff>>
vars == <<sanVars, cacheVars, docVars, valVars, scanVars, hashVars, cmdVars, storeVars, loopVars, mmdcVars, reqVars, raceVars>>

(***************************************************************************)
(* Character classes and string primitives (Rust std / regex semantics).   *)
(***************************************************************************)
LOWER == <<"a", "b", "c", "d", "e", "f", "g", "h", "i", "j", "k", "l", "m", "n", "o", "p", "q",
    "r", "s", "t", "u", "v", "w", "x", "y", "z">>
UPPER == <<"A", "B", "C", "D", "E", "F", "G", "H", "I", "J", "K", "L", "M", "N", "O", "P", "Q",
    "R", "S", "T", "U", "V", "W", "X", "Y", "Z">>
DIGITS == <<"0", "1", "2", "3", "4", "5", "6", "7", "8", "9">>

\* \s of the regex crate and char::is_whitespace, on the characters of the model.
WHITESPACE == {" ", "\t", "\n", "\r"}

Range(f) == {f[i] : i \in DOMAIN f}

\* The least and the greatest element of a non-empty set of integers.
Least(S) == CHOOSE k \in S : \A j \in S : k <= j
Greatest(S) == CHOOSE k \in S : \A j \in S : j <= k

\* The index after the longest run of characters of cls that starts at i
\* (a greedy cls* of a regex); i itself when there is none.
SkipIn(s, i, cls) ==
  CHOOSE k \in i..(Len(s) + 1) :
    /\ k = Len(s) + 1 \/ s[k] \notin cls
    /\ \A j \in i..(k - 1) : s[j] \in cls

\* The same for a negated class [^...].
SkipNotIn(s, i, cls) ==
  CHOOSE k \in i..(Len(s) + 1) :
    /\ k = Len(s) + 1 \/ s[k] \in cls
    /\ \A j \in i..(k - 1) : s[j] \notin cls

\* char::to_lowercase on one character.
to_lower_char(c) ==
  IF \E i \in 1..26 : UPPER[i] = c THEN LOWER[CHOOSE i \in 1..26 : UPPER[i] = c] ELSE c

\* str::to_lowercase.
to_lowercase(s) == [i \in 1..Len(s) |-> to_lower_char(s[i])]

\* s[i..].starts_with(p), i counted from 1.
StartsWithAt(s, i, p) ==
  /\ i >= 1
  /\ i + Len(p) - 1 <= Len(s)
  /\ \A j \in 1..Len(p) : s[i + j - 1] = p[j]

\* The same under the (?i) flag: p is given in lower case.
StartsWithAtCI(s, i, p) ==
  /\ i >= 1
  /\ i + Len(p) - 1 <= Len(s)
  /\ \A j \in 1..Len(p) : to_lower_char(s[i + j - 1]) = p[j]

\* The first index >= i where p starts, 0 when there is none (str::find).
FindStr(s, i, p) ==
  LET hits == {k \in i..(Len(s) - Len(p) + 1) : StartsWithAt(s, k, p)}
  IN IF hits = {} THEN 0 ELSE Least(hits)

\* str::contains.
contains(s, p) == FindStr(s, 1, p) > 0

\* str::trim_start, str::trim_end and str::trim.
trim_start(s) == SubSeq(s, SkipIn(s, 1, WHITESPACE), Len(s))

trim_end(s) ==
  LET keep == {i \in 1..Len(s) : s[i] \notin WHITESPACE}
  IN IF keep = {} THEN <<>> ELSE SubSeq(s, 1, Greatest(keep))

trim(s) == trim_end(trim_start(s))

\* str::replace: every non-overlapping occurrence of pat, left to right.
RECURSIVE replace(_, _, _)
replace(s, pat, with) ==
  LET k == FindStr(s, 1, pat)
  IN IF pat = <<>> \/ k = 0 THEN s
     ELSE SubSeq(s, 1, k - 1) \o with \o replace(SubSeq(s, k + Len(pat), Len(s)), pat, with)

(***************************************************************************)
(* The sanitizer's regular expressions.  A regex is modelled by its match  *)
(* at a start index i: the index after the match, or 0 when the regex does *)
(* not match at i (leftmost-first semantics of the regex crate).           *)
(***************************************************************************)
\* [a-z0-9_.:-] under (?i).
NAME_CHARS == Range(LOWER) \cup Range(UPPER) \cup Range(DIGITS) \cup {"_", ".", ":", "-"}

\* (?:"[^"]*"|'[^']*'|[^\s>]+) at d: the alternatives in the regex's order.
AttrValueEnd(s, d) ==
  LET dq == FindStr(s, d + 1, <<"\"">>)
      sq == FindStr(s, d + 1, <<"'">>)
      bare == SkipNotIn(s, d, WHITESPACE \cup {">"})
  IN IF d > Len(s) THEN 0
     ELSE IF s[d] = "\"" /\ dq > 0 THEN dq + 1
     ELSE IF s[d] = "'" /\ sq > 0 THEN sq + 1
     ELSE IF bare > d THEN bare
     ELSE 0

\* (?i)\s+on[a-z0-9_.:-]+\s*=\s*(?:"[^"]*"|'[^']*'|[^\s>]+)
EVENT_HANDLER_ATTR(s, i) ==
  LET a == SkipIn(s, i, WHITESPACE)
      b == SkipIn(s, a + 2, NAME_CHARS)
      c == SkipIn(s, b, WHITESPACE)
      d == SkipIn(s, c + 1, WHITESPACE)
  IN IF /\ i <= Len(s)
        /\ s[i] \in WHITESPACE
        /\ StartsWithAtCI(s, a, <<"o", "n">>)
        /\ b > a + 2
        /\ c <= Len(s)
        /\ s[c] = "="
     THEN AttrValueEnd(s, d)
     ELSE 0

\* "\s*javascript:[^"]*" (q the quote character) at d.
JsValueEnd(s, d, q) ==
  LET e == SkipIn(s, d + 1, WHITESPACE)
      close == FindStr(s, e + 11, <<q>>)
  IN IF d <= Len(s) /\ s[d] = q /\ StartsWithAtCI(s, e, <<"j", "a", "v", "a", "s", "c", "r", "i",
      "p", "t", ":">>) /\ close > 0
     THEN close + 1
     ELSE 0

\* (?i)\s+(?:xlink:)?href\s*=\s*(?:"\s*javascript:[^"]*"|'\s*javascript:[^']*')
JAVASCRIPT_HREF_ATTR(s, i) ==
  LET a == SkipIn(s, i, WHITESPACE)
      h == IF StartsWithAtCI(s, a, <<"x", "l", "i", "n", "k", ":">>) THEN a + 6 ELSE a
      c == SkipIn(s, h + 4, WHITESPACE)
      d == SkipIn(s, c + 1, WHITESPACE)
  IN IF /\ i <= Len(s)
        /\ s[i] \in WHITESPACE
        /\ StartsWithAtCI(s, h, <<"h", "r", "e", "f">>)
        /\ c <= Len(s)
        /\ s[c] = "="
     THEN IF JsValueEnd(s, d, "\"") > 0 THEN JsValueEnd(s, d, "\"") ELSE JsValueEnd(s, d, "'")
     ELSE 0

\* <[^>]*>
HTML_TAG_REGEX(s, i) ==
  LET gt == FindStr(s, i + 1, <<">">>)
  IN IF i <= Len(s) /\ s[i] = "<" /\ gt > 0 THEN gt + 1 ELSE 0

FO_OPEN == <<"<", "f", "o", "r", "e", "i", "g", "n", "O", "b", "j", "e", "c", "t">>
FO_CLOSE == <<"<", "/", "f", "o", "r", "e", "i", "g", "n", "O", "b", "j", "e", "c", "t", ">">>

\* <foreignObject[^>]*>(.*?)</foreignObject> at i: [^>]* ends at the first '>',
\* the lazy (.*?) at the first closing tag, and '.' does not match a line feed.
\* The match as [found, from, cfrom, cto, to]: s[from..to] is group 0 and
\* s[cfrom..cto] is group 1.
FoMatchAt(s, i) ==
  LET gt == FindStr(s, i + Len(FO_OPEN), <<">">>)
      cl == FindStr(s, gt + 1, FO_CLOSE)
  IN IF /\ i >= 1
        /\ StartsWithAt(s, i, FO_OPEN)
        /\ gt > 0
        /\ cl > 0
        /\ \A j \in (gt + 1)..(cl - 1) : s[j] # "\n"
     THEN [found |-> TRUE, from |-> i, cfrom |-> gt + 1, cto |-> cl - 1,
           to |-> cl + Len(FO_CLOSE) - 1]
     ELSE [found |-> FALSE, from |-> 0, cfrom |-> 0, cto |-> 0, to |-> 0]

\* Regex::captures: the leftmost match.
FOREIGN_OBJECT_REGEX(s) ==
  LET starts == {i \in 1..Len(s) : FoMatchAt(s, i).found}
  IN IF starts = {} THEN FoMatchAt(s, 0) ELSE FoMatchAt(s, Least(starts))

\* Regex::replace_all(s, "") of each stripping regex, scanning from i: the leftmost
\* match is dropped and the scan goes on after it, in one pass.
RECURSIVE strip_event_handlers(_, _)
strip_event_handlers(s, i) ==
  LET starts == {k \in i..Len(s) : EVENT_HANDLER_ATTR(s, k) > 0}
      m == Least(starts)
  IN IF starts = {} THEN SubSeq(s, i, Len(s))
     ELSE SubSeq(s, i, m - 1) \o strip_event_handlers(s, EVENT_HANDLER_ATTR(s, m))

RECURSIVE strip_javascript_hrefs(_, _)
strip_javascript_hrefs(s, i) ==
  LET starts == {k \in i..Len(s) : JAVASCRIPT_HREF_ATTR(s, k) > 0}
      m == Least(starts)
  IN IF starts = {} THEN SubSeq(s, i, Len(s))
     ELSE SubSeq(s, i, m - 1) \o strip_javascript_hrefs(s, JAVASCRIPT_HREF_ATTR(s, m))

RECURSIVE strip_html_tags(_, _)
strip_html_tags(s, i) ==
  LET starts == {k \in i..Len(s) : HTML_TAG_REGEX(s, k) > 0}
      m == Least(starts)
  IN IF starts = {} THEN SubSeq(s, i, Len(s))
     ELSE SubSeq(s, i, m - 1) \o strip_html_tags(s, HTML_TAG_REGEX(s, m))

\* html_escape::decode_html_entities, for the named entities of the model's
\* inputs: each &name; is decoded once, left to right.
ENTITIES ==
  << <<<<"&", "l", "t", ";">>, "<">>, <<<<"&", "g", "t", ";">>, ">">>, <<<<"&", "a", "m", "p",
      ";">>, "&">>, <<<<"&", "q", "u", "o", "t", ";">>, "\"">> >>

EntityAt(s, i) == {e \in 1..Len(ENTITIES) : StartsWithAt(s, i, ENTITIES[e][1])}

RECURSIVE decode_html_entities(_, _)
decode_html_entities(s, i) ==
  LET starts == {k \in i..Len(s) : EntityAt(s, k) # {}}
      m == Least(starts)
      e == CHOOSE x \in EntityAt(s, m) : TRUE
  IN IF starts = {} THEN SubSeq(s, i, Len(s))
     ELSE SubSeq(s, i, m - 1) \o <<ENTITIES[e][2]>>
            \o decode_html_entities(s, m + Len(ENTITIES[e][1]))

\* Extract visible text from HTML content, stripping tags.
extract_text_from_html(html) == trim(decode_html_entities(strip_html_tags(html, 1), 1))

\* Regex attr="([^"]*)" on tag, leftmost match: [found, value].
extract_attr(tag, attr) ==
  LET k == FindStr(tag, 1, attr \o <<"=", "\"">>)
      v == k + Len(attr) + 2
      close == FindStr(tag, v, <<"\"">>)
  IN IF k = 0 \/ close = 0 THEN [found |-> FALSE, value |-> <<>>]
     ELSE [found |-> TRUE, value |-> SubSeq(tag, v, close - 1)]

(***************************************************************************)
(* Numbers of the container geometry.  The attribute values of the model's *)
(* inputs are unsigned decimal integers; any other text is unparsable.     *)
(***************************************************************************)
DigitVal(c) == (CHOOSE i \in 1..10 : DIGITS[i] = c) - 1

RECURSIVE DecimalValue(_)
DecimalValue(v) ==
  IF v = <<>> THEN 0 ELSE 10 * DecimalValue(SubSeq(v, 1, Len(v) - 1)) + DigitVal(v[Len(v)])

\* extract_attr(..).and_then(|v| v.parse::<f64>().ok()).unwrap_or(0.0)
attr_f64(tag, attr) ==
  LET a == extract_attr(tag, attr)
  IN IF a.found /\ a.value # <<>> /\ \A i \in 1..Len(a.value) : a.value[i] \in Range(DIGITS)
     THEN DecimalValue(a.value)
     ELSE 0

RECURSIVE NatToText(_)
NatToText(n) ==
  IF n < 10 THEN <<DIGITS[n + 1]>> ELSE NatToText(n \div 10) \o <<DIGITS[(n % 10) + 1]>>

\* format!("{:.2}") of half / 2, the centre coordinate x + w / 2.0.
FormatHalves(half) ==
  NatToText(half \div 2) \o (IF half % 2 = 0 THEN <<".", "0", "0">> ELSE <<".", "5", "0">>)

TEXT_STYLE ==
  <<" ", "f", "o", "n", "t", "-", "f", "a", "m", "i", "l", "y", "=", "\"", "A", "r", "i", "a",
      "l", ",", " ", "s", "a", "n", "s", "-", "s", "e", "r", "i", "f", "\"", " ", "f", "o", "n",
          "t", "-", "s", "i", "z", "e", "=", "\"", "1", "4", "\"", " ", "f", "i", "l", "l", "=",
              "\"", "#", "3", "3", "3", "\"", ">">>

\* Mutant of ConvertOne: the body leaves the matched container in place.
ConvertOne_no_change(result, caps) == result

\* One iteration of the body of the while-let loop: caps is the match.
ConvertOne(result, caps) ==
  LET full_match == SubSeq(result, caps.from, caps.to)
      content == SubSeq(result, caps.cfrom, caps.cto)
      text == extract_text_from_html(content)
      transform == extract_attr(full_match, <<"t", "r", "a", "n", "s", "f", "o", "r", "m">>)
      x == attr_f64(full_match, <<"x">>)
      y == attr_f64(full_match, <<"y">>)
      w == attr_f64(full_match, <<"w", "i", "d", "t", "h">>)
      h == attr_f64(full_match, <<"h", "e", "i", "g", "h", "t">>)
  IN IF trim(text) = <<>> THEN replace(result, full_match, <<>>)
     ELSE IF transform.found
     THEN replace(result, full_match,
            <<"<", "t", "e", "x", "t", " ", "t", "r", "a", "n", "s", "f", "o", "r", "m", "=",
                "\"">> \o transform.value
              \o <<"\"", " ", "t", "e", "x", "t", "-", "a", "n", "c", "h", "o", "r", "=", "\"",
                  "s", "t", "a", "r", "t", "\"", " ", "d", "o", "m", "i", "n", "a", "n", "t", "-",
                      "b", "a", "s", "e", "l", "i", "n", "e", "=", "\"", "h", "a", "n", "g", "i",
                          "n", "g", "\"">>
              \o TEXT_STYLE \o text \o <<"<", "/", "t", "e", "x", "t", ">">>)
     ELSE IF w <= 0 \/ h <= 0 THEN replace(result, full_match, <<>>)
     ELSE replace(result, full_match,
            <<"<", "t", "e", "x", "t", " ", "x", "=", "\"">> \o FormatHalves(2 * x + w) \o <<"\"",
                " ", "y", "=", "\"">> \o FormatHalves(2 * y + h)
              \o <<"\"", " ", "t", "e", "x", "t", "-", "a", "n", "c", "h", "o", "r", "=", "\"",
                  "m", "i", "d", "d", "l", "e", "\"", " ", "d", "o", "m", "i", "n", "a", "n", "t",
                      "-", "b", "a", "s", "e", "l", "i", "n", "e", "=", "\"", "m", "i", "d", "d",
                          "l", "e", "\"">>
              \o TEXT_STYLE \o text \o <<"<", "/", "t", "e", "x", "t", ">">>)

\* Convert <foreignObject> elements to native SVG <text> elements.
RECURSIVE convert_foreign_objects(_)
convert_foreign_objects(s) ==
  LET caps == FOREIGN_OBJECT_REGEX(s)
  IN IF caps.found THEN convert_foreign_objects(ConvertOne(s, caps)) ELSE s

\* Mutant of sanitize_svg: the script check compares without lowering the case.
sanitize_svg_case_sensitive(s) ==
  IF contains(s, <<"<", "s", "c", "r", "i", "p", "t">>) THEN [ok |-> FALSE, out |-> <<>>]
  ELSE [ok |-> TRUE,
        out |-> convert_foreign_objects(
                  strip_javascript_hrefs(strip_event_handlers(s, 1), 1))]

\* Sanitize SVG to prevent XSS attacks: Err is [ok |-> FALSE].
sanitize_svg(s) ==
  IF contains(to_lowercase(s), <<"<", "s", "c", "r", "i", "p",
      "t">>) THEN [ok |-> FALSE, out |-> <<>>]
  ELSE [ok |-> TRUE,
        out |-> convert_foreign_objects(
                  strip_javascript_hrefs(strip_event_handlers(s, 1), 1))]

(***************************************************************************)
(* Sanitizer runs: the raw SVG is any concatenation of at most MaxFrags    *)
(* fragments, then sanitize_svg is called on it.                           *)
(***************************************************************************)
MaxFrags == 3

FRAGMENTS ==
  { <<"<", "s", "C", "r">>, <<"i", "p", "t", ">">>,
    <<" ", "o", "n", "x", "=", "\"", "1", "\"">>, <<" ", "o", "n">>, <<"c", "=", "'", "e", "'">>,
    <<" ", "h", "r", "e", "f", "=", "\"", "j", "a", "v", "a">>, <<"s", "c", "r", "i", "p", "t",
        ":", "a", "\"">>, <<" ", "x", "l", "i", "n", "k", ":", "h", "r", "e", "f", "=", "'", "j",
            "a", "v", "a", "s", "c", "r", "i", "p", "t", ":", "b", "'">>,
    <<"<", "f", "o", "r", "e", "i", "g", "n", "O", "b", "j", "e", "c", "t", " ", "w", "i", "d",
        "t", "h", "=", "\"", "2", "\"", " ", "h", "e", "i", "g", "h", "t", "=", "\"", "2", "\"",
            ">">>, FO_CLOSE,
    <<"\n">>, <<"&", "l", "t", ";", "s", "C", "r", "i", "p", "t", "&", "g", "t", ";">> }

SanInit ==
  /\ svg = <<>>
  /\ nfrags = 0
  /\ sanPc = "build"
  /\ sanitized = [ok |-> FALSE, out |-> <<>>]

\* The external renderer's output grows by one fragment.
SanAppend(f) ==
  /\ sanPc = "build"
  /\ nfrags < MaxFrags
  /\ svg' = svg \o f
  /\ nfrags' = nfrags + 1
  /\ UNCHANGED <<sanPc, sanitized, cacheVars, docVars, valVars, scanVars, hashVars, cmdVars, storeVars, loopVars, mmdcVars, reqVars, raceVars>>

\* render_mermaid hands the renderer's output to sanitize_svg.
SanSanitize ==
  /\ sanPc = "build"
  /\ sanitized' = sanitize_svg(svg)
  /\ sanPc' = "done"
  /\ UNCHANGED <<svg, nfrags, cacheVars, docVars, valVars, scanVars, hashVars, cmdVars, storeVars, loopVars, mmdcVars, reqVars, raceVars>>


(***************************************************************************)
(* Sanitizer claims.                                                       *)
(***************************************************************************)
SanOk == sanPc = "done" /\ sanitized.ok

\* "<script" in any mix of upper and lower case, stated letter by letter.
SCRIPT_ANY_CASE ==
  << {"<"}, {"s", "S"}, {"c", "C"}, {"r", "R"}, {"i", "I"}, {"p", "P"}, {"t", "T"} >>

HasScriptAnyCase(s) ==
  \E i \in 1..(Len(s) - 6) : \A j \in 1..7 : s[i + j - 1] \in SCRIPT_ANY_CASE[j]

\* C1: whenever sanitize returns Ok, its output holds no "<script" substring in any
\* letter case, whatever the stripping and container-flattening stages emitted.
C1_NoScriptInOutput == SanOk => ~HasScriptAnyCase(sanitized.out)

\* C4: an input that holds "<script" in any mix of upper and lower case is rejected
\* with an error and no output.
C4_RejectsScript ==
  (sanPc = "done" /\ HasScriptAnyCase(svg)) => (~sanitized.ok /\ sanitized.out = <<>>)

\* C4 witness: a mixed-case script tag was handed to sanitize and rejected.
C4_Witness ==
  /\ sanPc = "done"
  /\ StartsWithAt(svg, 1, <<"<", "s", "C", "r", "i", "p", "t", ">">>)
  /\ ~sanitized.ok

\* C5: whenever sanitize returns Ok, no substring of its output matches the
\* event-handler pattern.
C5_NoEventHandlerInOutput ==
  SanOk => \A i \in 1..Len(sanitized.out) : EVENT_HANDLER_ATTR(sanitized.out, i) = 0

\* C6: whenever sanitize returns Ok, its output holds no href or xlink:href
\* attribute whose quoted value starts with the javascript: scheme.
C6_NoJavascriptHrefInOutput ==
  SanOk => \A i \in 1..Len(sanitized.out) : JAVASCRIPT_HREF_ATTR(sanitized.out, i) = 0

\* The indices where p starts in s.
Occurrences(s, p) == {i \in 1..Len(s) : StartsWithAt(s, i, p)}

\* Every container of s has its opening and its closing tag: as many opening as
\* closing tags, each opening tag closed by a '>' and followed by a closing tag,
\* each closing tag preceded by an opening tag.
AllContainersClosed(s) ==
  /\ Cardinality(Occurrences(s, FO_OPEN)) = Cardinality(Occurrences(s, FO_CLOSE))
  /\ \A i \in Occurrences(s, FO_OPEN) :
       /\ FindStr(s, i, <<">">>) > 0
       /\ FindStr(s, FindStr(s, i, <<">">>), FO_CLOSE) > 0
  /\ \A k \in Occurrences(s, FO_CLOSE) : \E i \in Occurrences(s, FO_OPEN) : i < k

\* C7: whenever sanitize returns Ok on an input whose containers all have both
\* tags, the output holds no foreignObject container, also when a container's
\* content spans several lines.
C7_NoForeignObjectInOutput ==
  (SanOk /\ AllContainersClosed(svg)) => ~contains(sanitized.out, FO_OPEN)

(***************************************************************************)
(* Sanitizer runs on whole elements: the raw SVG is a concatenation of at  *)
(* most MaxFrags parts, each an opening tag of a container, a label, a     *)
(* closing tag, or a piece of an element with attributes.                  *)
(***************************************************************************)
\* Opening tags of containers without a transform attribute and with a width
\* and a height above 0, each with the centre of its box written with two
\* decimals; a missing or unparsable value counts as 0.
SIZED_OPENS ==
  { [tag |-> <<"<", "f", "o", "r", "e", "i", "g", "n", "O", "b", "j", "e", "c", "t", " ", "x",
      "=", "\"", "2", "0", "\"", " ", "y", "=", "\"", "3", "0", "\"", " ", "w", "i", "d", "t",
          "h", "=", "\"", "1", "6", "0", "\"", " ", "h", "e", "i", "g", "h", "t", "=", "\"", "4",
              "0", "\"", ">">>,
     cx |-> <<"1", "0", "0", ".", "0", "0">>, cy |-> <<"5", "0", ".", "0", "0">>],
    [tag |-> <<"<", "f", "o", "r", "e", "i", "g", "n", "O", "b", "j", "e", "c", "t", " ", "y",
        "=", "\"", "7", "\"", " ", "w", "i", "d", "t", "h", "=", "\"", "3", "\"", " ", "h", "e",
            "i", "g", "h", "t", "=", "\"", "5", "\"", ">">>,
     cx |-> <<"1", ".", "5", "0">>, cy |-> <<"9", ".", "5", "0">>],
    [tag |-> <<"<", "f", "o", "r", "e", "i", "g", "n", "O", "b", "j", "e", "c", "t", " ", "x",
        "=", "\"", "a", "b", "c", "\"", " ", "y", "=", "\"", "1", "\"", " ", "w", "i", "d", "t",
            "h", "=", "\"", "2", "\"", " ", "h", "e", "i", "g", "h", "t", "=", "\"", "2", "\"",
                ">">>,
     cx |-> <<"1", ".", "0", "0">>, cy |-> <<"2", ".", "0", "0">>] }

\* Opening tags of containers whose width or height is 0.
ZERO_OPENS ==
  { <<"<", "f", "o", "r", "e", "i", "g", "n", "O", "b", "j", "e", "c", "t", " ", "x", "=", "\"",
      "0", "\"", " ", "y", "=", "\"", "0", "\"", " ", "w", "i", "d", "t", "h", "=", "\"", "0",
          "\"", " ", "h", "e", "i", "g", "h", "t", "=", "\"", "0", "\"", ">">>,
    <<"<", "f", "o", "r", "e", "i", "g", "n", "O", "b", "j", "e", "c", "t", " ", "w", "i", "d",
        "t", "h", "=", "\"", "0", "\"", " ", "h", "e", "i", "g", "h", "t", "=", "\"", "4", "0",
            "\"", ">">>,
    <<"<", "f", "o", "r", "e", "i", "g", "n", "O", "b", "j", "e", "c", "t", " ", "x", "=", "\"",
        "2", "0", "\"", " ", "y", "=", "\"", "3", "0", "\"", " ", "w", "i", "d", "t", "h", "=",
            "\"", "1", "6", "0", "\"", " ", "h", "e", "i", "g", "h", "t", "=", "\"", "0", "\"",
                ">">>,
    <<"<", "f", "o", "r", "e", "i", "g", "n", "O", "b", "j", "e", "c", "t", " ", "t", "r", "a",
        "n", "s", "f", "o", "r", "m", "=", "\"", "t", "r", "a", "n", "s", "l", "a", "t", "e", "(",
            "1", ",", "2", ")", "\"", " ", "w", "i", "d", "t", "h", "=", "\"", "0", "\"", " ",
                "h", "e", "i", "g", "h", "t", "=", "\"", "4", "0", "\"", ">">> }

\* Inner markup of containers, each with what is left of it when every
\* nested tag is removed.
LABELS ==
  { [markup |-> <<"L", "a", "b", "e", "l">>, text |-> <<"L", "a", "b", "e", "l">>],
    [markup |-> <<"<", "p", ">", "L", "a", "b", "e", "l", "<", "/", "p", ">">>, text |-> <<"L",
        "a", "b", "e", "l">>],
    [markup |-> <<"<", "d", "i", "v", ">", "<", "p", ">", "L", "a", "b", "e", "l", "<", "/", "p",
        ">", "<", "/", "d", "i", "v", ">">>, text |-> <<"L", "a", "b", "e", "l">>],
    [markup |-> <<"<", "p", ">", "L", "a", "\n", "b", "e", "l", "<", "/", "p",
        ">">>, text |-> <<"L", "a", "\n", "b", "e", "l">>],
    [markup |-> <<"<", "d", "i", "v", ">", "<", "/", "d", "i", "v", ">">>, text |-> <<>>] }

\* Pieces of elements with attributes and of text, each with what is left of
\* it when its onclick and onmouseover attributes are removed.
ELEMENT_PARTS ==
  { [raw |-> <<"<", "s", "v", "g", ">", "<", "r", "e", "c", "t", " ", "o", "n", "c", "l", "i",
      "c", "k", "=", "\"", "a", "l", "e", "r", "t", "(", ")", "\"", " ", "w", "i", "d", "t", "h",
          "=", "\"", "1", "0", "\"", " ", "/", ">">>, kept |-> <<"<", "s", "v", "g", ">", "<",
              "r", "e", "c", "t", " ", "w", "i", "d", "t", "h", "=", "\"", "1", "0", "\"", " ",
                  "/", ">">>],
    [raw |-> <<"<", "r", "e", "c", "t", " ", "o", "n", "m", "o", "u", "s", "e", "o", "v", "e",
        "r", "=", "'", "d", "o", "S", "o", "m", "e", "t", "h", "i", "n", "g", "(", ")", "'", " ",
            "w", "i", "d", "t", "h", "=", "\"", "1", "0", "\"", " ", "/", ">">>,
     kept |-> <<"<", "r", "e", "c", "t", " ", "w", "i", "d", "t", "h", "=", "\"", "1", "0", "\"",
         " ", "/", ">">>],
    [raw |-> <<"<", "a", " ", "i", "d", "=", "\"", "n", "\"", " ", "o", "n", "c", "l", "i", "c",
        "k", "=", "\"", "g", "o", "(", ")", "\"", " ", "c", "l", "a", "s", "s", "=", "\"", "n",
            "o", "d", "e", "\"", ">">>, kept |-> <<"<", "a", " ", "i", "d", "=", "\"", "n", "\"",
                " ", "c", "l", "a", "s", "s", "=", "\"", "n", "o", "d", "e", "\"", ">">>],
    [raw |-> <<"<", "a", " ", "o", "n", "c", "l", "i", "c", "k", "=", "\"", "g", "o", "(", ")",
        "\"", " ", "t", "i", "t", "l", "e", "=", "\"", "i", "f", " ", "o", "n", "l", "i", "n",
            "e", "=", "t", "r", "u", "e", "\"", ">">>,
     kept |-> <<"<", "a", " ", "t", "i", "t", "l", "e", "=", "\"", "i", "f", " ", "o", "n", "l",
         "i", "n", "e", "=", "t", "r", "u", "e", "\"", ">">>],
    [raw |-> <<"<", "t", "e", "x", "t", ">", "i", "f", " ", "o", "n", "l", "i", "n", "e", "=",
        "t", "r", "u", "e", "<", "/", "t", "e", "x", "t", ">">>, kept |-> <<"<", "t", "e", "x",
            "t", ">", "i", "f", " ", "o", "n", "l", "i", "n", "e", "=", "t", "r", "u", "e", "<",
                "/", "t", "e", "x", "t", ">">>],
    [raw |-> <<"<", "/", "a", ">", "<", "/", "s", "v", "g", ">">>, kept |-> <<"<", "/", "a", ">",
        "<", "/", "s", "v", "g", ">">>] }

SVG_PARTS ==
  {o.tag : o \in SIZED_OPENS} \cup ZERO_OPENS \cup {l.markup : l \in LABELS}
    \cup {FO_CLOSE} \cup {e.raw : e \in ELEMENT_PARTS}

\* The centred text element convert_foreign_objects is to emit.
CentredText(cx, cy, text) ==
  <<"<", "t", "e", "x", "t", " ", "x", "=", "\"">> \o cx \o <<"\"", " ", "y", "=", "\"">> \o cy
    \o <<"\"", " ", "t", "e", "x", "t", "-", "a", "n", "c", "h", "o", "r", "=", "\"", "m", "i",
        "d", "d", "l", "e", "\"", " ", "d", "o", "m", "i", "n", "a", "n", "t", "-", "b", "a", "s",
            "e", "l", "i", "n", "e", "=", "\"", "m", "i", "d", "d", "l", "e", "\"", " ", "f", "o",
                "n", "t", "-", "f", "a", "m", "i", "l", "y", "=", "\"", "A", "r", "i", "a", "l",
                    ",", " ", "s", "a", "n", "s", "-", "s", "e", "r", "i", "f", "\"", " ", "f",
                        "o", "n", "t", "-", "s", "i", "z", "e", "=", "\"", "1", "4", "\"", " ",
                            "f", "i", "l", "l", "=", "\"", "#", "3", "3", "3", "\"", ">">>
    \o text \o <<"<", "/", "t", "e", "x", "t", ">">>

\* C26: a container whose width attribute is 0 or whose height attribute is 0
\* disappears from the output of sanitize: neither the container nor a text
\* element is left in its place.
C26_ZeroSizeContainerDisappears ==
  sanPc = "done" =>
    \A o \in ZERO_OPENS, l \in LABELS :
      svg = o \o l.markup \o FO_CLOSE => sanitized.ok /\ sanitized.out = <<>>

\* C27: a container without a transform attribute, with a width and a height
\* above 0 and a label that is not empty, is replaced by exactly one text
\* element at (x + width/2, y + height/2), centred, holding the inner markup
\* with every nested tag removed.
C27_ContainerBecomesCentredText ==
  sanPc = "done" =>
    \A o \in SIZED_OPENS, l \in LABELS :
      (l.text # <<>> /\ svg = o.tag \o l.markup \o FO_CLOSE) =>
        sanitized.ok /\ sanitized.out = CentredText(o.cx, o.cy, l.text)

\* C28: stripping event handlers changes nothing else: the tag and the other
\* attributes of an element with an onclick or onmouseover attribute, and the
\* text outside the removed attributes, are in the output as they were.
C28_OnlyEventHandlersRemoved ==
  sanPc = "done" =>
    \A e, f, g \in ELEMENT_PARTS :
      svg = e.raw \o f.raw \o g.raw =>
        sanitized.ok /\ sanitized.out = e.kept \o f.kept \o g.kept

(***************************************************************************)
(* The while-let loop of convert_foreign_objects, one iteration a step.    *)
(***************************************************************************)
MaxLoopParts == 3
MaxIterations == 8

\* The parts of the texts the loop is run on: opening tags (with a size,
\* without, with a transform attribute, unfinished), the closing tag, a label,
\* a line feed, a container and a closing tag written with entities, and a tag
\* whose transform value holds the beginning of an opening tag.
LOOP_PARTS ==
  { <<"<", "f", "o", "r", "e", "i", "g", "n", "O", "b", "j", "e", "c", "t", " ", "w", "i", "d",
      "t", "h", "=", "\"", "2", "\"", " ", "h", "e", "i", "g", "h", "t", "=", "\"", "2", "\"",
          ">">>, <<"<", "f", "o", "r", "e", "i", "g", "n", "O", "b", "j", "e", "c", "t", ">">>,
    <<"<", "f", "o", "r", "e", "i", "g", "n", "O", "b", "j", "e", "c", "t", " ", "t", "r", "a",
        "n", "s", "f", "o", "r", "m", "=", "\"", "t", "\"", ">">>, <<"<", "f", "o", "r", "e", "i",
            "g", "n", "O", "b", "j", "e", "c", "t">>, FO_CLOSE, <<"L", "a", "b", "e",
                "l">>, <<"\n">>,
    <<"&", "l", "t", ";", "f", "o", "r", "e", "i", "g", "n", "O", "b", "j", "e", "c", "t", " ",
        "w", "i", "d", "t", "h", "=", "\"", "2", "\"", " ", "h", "e", "i", "g", "h", "t", "=",
            "\"", "2", "\"", "&", "g", "t", ";", "x", "&", "l", "t", ";", "/", "f", "o", "r", "e",
                "i", "g", "n", "O", "b", "j", "e", "c", "t", "&", "g", "t", ";">>,
    <<"&", "a", "m", "p", ";", "l", "t", ";", "/", "f", "o", "r", "e", "i", "g", "n", "O", "b",
        "j", "e", "c", "t", "&", "a", "m", "p", ";", "g", "t", ";">>,
    <<"<", "p", " ", "t", "r", "a", "n", "s", "f", "o", "r", "m", "=", "\"", "<", "f", "o", "r",
        "e", "i", "g", "n", "O", "b", "j", "e", "c", "t", "\"", ">">> }

\* No text yet.
LoopInit ==
  /\ loopInput = <<>>
  /\ loopResult = <<>>
  /\ loopIter = 0
  /\ loopPc = "build"

\* The text sanitize_svg will hand over grows by one part.
LoopAppend(part) ==
  /\ loopPc = "build"
  /\ loopIter < MaxLoopParts
  /\ loopInput' = loopInput \o part
  /\ loopIter' = loopIter + 1
  /\ UNCHANGED <<loopResult, loopPc>>
  /\ UNCHANGED <<sanVars, cacheVars, docVars, valVars, scanVars, hashVars, cmdVars, storeVars, mmdcVars, reqVars, raceVars>>

\* The call: let mut result = svg.to_string()
LoopStart ==
  /\ loopPc = "build"
  /\ loopResult' = loopInput
  /\ loopIter' = 0
  /\ loopPc' = "loop"
  /\ UNCHANGED loopInput
  /\ UNCHANGED <<sanVars, cacheVars, docVars, valVars, scanVars, hashVars, cmdVars, storeVars, mmdcVars, reqVars, raceVars>>

\* One iteration: the regex captures a container and the body replaces it.
LoopIterate ==
  /\ loopPc = "loop"
  /\ loopIter < MaxIterations
  /\ \E caps \in {FOREIGN_OBJECT_REGEX(loopResult)} :
       /\ caps.found
       /\ \E replaced \in {ConvertOne(loopResult, caps)} : loopResult' = replaced
  /\ loopIter' = loopIter + 1
  /\ UNCHANGED <<loopInput, loopPc>>
  /\ UNCHANGED <<sanVars, cacheVars, docVars, valVars, scanVars, hashVars, cmdVars, storeVars, mmdcVars, reqVars, raceVars>>

\* The regex captures nothing: Ok(result).
LoopExit ==
  /\ loopPc = "loop"
  /\ \E caps \in {FOREIGN_OBJECT_REGEX(loopResult)} : ~caps.found
  /\ loopPc' = "done"
  /\ UNCHANGED <<loopInput, loopResult, loopIter>>
  /\ UNCHANGED <<sanVars, cacheVars, docVars, valVars, scanVars, hashVars, cmdVars, storeVars, mmdcVars, reqVars, raceVars>>

\* C35: the conversion loop terminates on every input: each iteration removes
\* or replaces the container it matched, the loop returns after finitely many
\* iterations, and a text in which no container matches is returned as it is
\* without an iteration.
C35_LoopTerminates ==
  /\ (loopPc = "loop") ~> (loopPc = "done")
  /\ [][loopPc = "loop" /\ loopIter' = loopIter + 1 => loopResult' # loopResult]_vars
  /\ [](loopPc # "build" /\ ~FOREIGN_OBJECT_REGEX(loopInput).found
          => loopIter = 0 /\ loopResult = loopInput)

\* The loop returned after two iterations: the text of the first container
\* held a container written with entities.
C35_Witness ==
  /\ loopPc = "done"
  /\ loopIter >= 2

(***************************************************************************)
(* find_mmdc: where the renderer binary is looked for.  A path is the      *)
(* sequence of its components; the value of an environment variable is an  *)
(* OsString, which need not be Unicode.                                    *)
(***************************************************************************)
MaxPathDirs == 2
MaxMmdcFiles == 2

\* The directories PATH may list.
MMDC_DIRS == { <<"usr", "bin">>, <<"opt", "node", "bin">> }

\* A component whose bytes (Latin-1 "caf\xE9") are not valid UTF-8.
NOT_UNICODE == { "caf_E9" }

\* The values MMDC_PATH may be set to: a file outside PATH, the binary of a
\* PATH directory, a path that is not Unicode, a directory, the empty string.
MMDC_VALUES ==
  { <<"opt", "mmdc">>, <<"usr", "bin", "mmdc">>, <<"opt", "caf_E9", "mmdc">>,
    <<"opt">>, <<>> }

\* The paths the file system may hold something at.
MMDC_FILES == (MMDC_VALUES \ {<<>>}) \cup { dir \o <<"mmdc">> : dir \in MMDC_DIRS }

\* The values PATH may be set to: lists of up to MaxPathDirs directories.
PATH_VALUES ==
  UNION { [1..n -> MMDC_DIRS] : n \in 0..MaxPathDirs }

NotPresent == [set |-> FALSE]
Present(value) == [set |-> TRUE, value |-> value]

\* std::env::var: Err when the variable is not set or its value is not Unicode.
var(env, key) ==
  IF ~env[key].set THEN [ok |-> FALSE, err |-> "NotPresent"]
  ELSE IF \E i \in 1..Len(env[key].value) : env[key].value[i] \in NOT_UNICODE
         THEN [ok |-> FALSE, err |-> "NotUnicode"]
         ELSE [ok |-> TRUE, value |-> env[key].value]

\* Path::is_file on the candidate: a regular file, executable or not.
candidate_is_file(fs, path) == path \in DOMAIN fs /\ fs[path] \in {"file", "exec"}

\* The places of PATH that hold an executable mmdc.
PathHits(env, fs) ==
  { i \in 1..Len(env["PATH"].value) :
      /\ env["PATH"].value[i] \o <<"mmdc">> \in DOMAIN fs
      /\ fs[env["PATH"].value[i] \o <<"mmdc">>] = "exec" }

\* which::which("mmdc"): the first directory of PATH holding an executable mmdc.
which(env, fs) ==
  IF ~env["PATH"].set \/ PathHits(env, fs) = {} THEN [ok |-> FALSE]
  ELSE [ok |-> TRUE,
        path |-> env["PATH"].value[CHOOSE i \in PathHits(env, fs) :
                                     \A j \in PathHits(env, fs) : i <= j] \o <<"mmdc">>]

\* find_mmdc: the Result, and whether PATH was searched on the way.
find_mmdc(env, fs) ==
  IF var(env, "MMDC_PATH").ok
    THEN IF candidate_is_file(fs, var(env, "MMDC_PATH").value)
           THEN [ok |-> TRUE, path |-> var(env, "MMDC_PATH").value, searched |-> FALSE]
           ELSE [ok |-> FALSE, err |-> "MMDC_PATH points to it, but it is not a file",
                 searched |-> FALSE]
    ELSE IF which(env, fs).ok
           THEN [ok |-> TRUE, path |-> which(env, fs).path, searched |-> TRUE]
           ELSE [ok |-> FALSE, err |-> "mmdc not found", searched |-> TRUE]

NotCalled == [ok |-> FALSE, err |-> "not called", searched |-> FALSE]

\* The environment of a fresh process: PATH lists /usr/bin, nothing is installed.
MmdcInit ==
  /\ mmdcEnv = [MMDC_PATH |-> NotPresent, PATH |-> Present(<< <<"usr", "bin">> >>)]
  /\ mmdcFs = << >>
  /\ mmdcPc = "build"
  /\ mmdcResult = NotCalled

\* The environment the server is started in sets or unsets a variable.
MmdcSetVar(key, setting) ==
  /\ mmdcPc = "build"
  /\ mmdcEnv[key] # setting
  /\ mmdcEnv' = [mmdcEnv EXCEPT ![key] = setting]
  /\ UNCHANGED <<mmdcFs, mmdcPc, mmdcResult>>
  /\ UNCHANGED <<sanVars, cacheVars, docVars, valVars, scanVars, hashVars, cmdVars, storeVars, loopVars, reqVars, raceVars>>

\* Something is installed at a path: a file, an executable file or a directory.
MmdcCreate(path, kind) ==
  /\ mmdcPc = "build"
  /\ path \notin DOMAIN mmdcFs
  /\ Cardinality(DOMAIN mmdcFs) < MaxMmdcFiles
  /\ mmdcFs' = [p \in DOMAIN mmdcFs \cup {path} |-> IF p = path THEN kind ELSE mmdcFs[p]]
  /\ UNCHANGED <<mmdcEnv, mmdcPc, mmdcResult>>
  /\ UNCHANGED <<sanVars, cacheVars, docVars, valVars, scanVars, hashVars, cmdVars, storeVars, loopVars, reqVars, raceVars>>

\* render_mermaid calls find_mmdc.
MmdcFind ==
  /\ mmdcPc = "build"
  /\ mmdcResult' = find_mmdc(mmdcEnv, mmdcFs)
  /\ mmdcPc' = "done"
  /\ UNCHANGED <<mmdcEnv, mmdcFs>>
  /\ UNCHANGED <<sanVars, cacheVars, docVars, valVars, scanVars, hashVars, cmdVars, storeVars, loopVars, reqVars, raceVars>>

\* C39: renderer discovery checks the environment override before the PATH
\* search: when MMDC_PATH is set and names a file, that path is used and PATH
\* is not searched; when it is set but names no file, discovery fails without
\* a PATH search; PATH is searched only when MMDC_PATH is unset, and discovery
\* fails when neither yields a binary.
C39_OverrideBeforePath ==
  mmdcPc = "done" =>
    /\ mmdcEnv["MMDC_PATH"].set /\ candidate_is_file(mmdcFs, mmdcEnv["MMDC_PATH"].value)
         => mmdcResult.ok /\ mmdcResult.path = mmdcEnv["MMDC_PATH"].value
              /\ ~mmdcResult.searched
    /\ mmdcEnv["MMDC_PATH"].set /\ ~candidate_is_file(mmdcFs, mmdcEnv["MMDC_PATH"].value)
         => ~mmdcResult.ok /\ ~mmdcResult.searched
    /\ mmdcResult.searched => ~mmdcEnv["MMDC_PATH"].set
    /\ ~mmdcEnv["MMDC_PATH"].set
         => /\ mmdcResult.ok <=> which(mmdcEnv, mmdcFs).ok
            /\ mmdcResult.ok => mmdcResult.path = which(mmdcEnv, mmdcFs).path

\* The same with "set" read as std::env::var reads it: set to a Unicode value.
C39_UnicodeOverrideBeforePath ==
  mmdcPc = "done" =>
    /\ var(mmdcEnv, "MMDC_PATH").ok /\ candidate_is_file(mmdcFs, mmdcEnv["MMDC_PATH"].value)
         => mmdcResult.ok /\ mmdcResult.path = mmdcEnv["MMDC_PATH"].value
              /\ ~mmdcResult.searched
    /\ var(mmdcEnv, "MMDC_PATH").ok /\ ~candidate_is_file(mmdcFs, mmdcEnv["MMDC_PATH"].value)
         => ~mmdcResult.ok /\ ~mmdcResult.searched
    /\ mmdcResult.searched => ~var(mmdcEnv, "MMDC_PATH").ok
    /\ ~var(mmdcEnv, "MMDC_PATH").ok
         => /\ mmdcResult.ok <=> which(mmdcEnv, mmdcFs).ok
            /\ mmdcResult.ok => mmdcResult.path = which(mmdcEnv, mmdcFs).path

(***************************************************************************)
(* The digest-addressed cache (src/cache.rs).  A path is [dir, name]: dir  *)
(* is "cache_dir" (the path the cache was built with), "canonical_cache"   *)
(* (what cache_dir canonicalizes to) or "outside" (any directory that is   *)
(* not under the canonical cache root).  The directory holds, per file     *)
(* name, a regular file, a directory, or a symlink to the one outside file.*)
(***************************************************************************)
HashLen == 64

HEX_DIGITS == Range(DIGITS) \cup Range(<<"a", "b", "c", "d", "e", "f">>) \cup Range(<<"A", "B",
    "C", "D", "E", "F">>)

SVG_EXT == <<".", "s", "v", "g">>

Repeat(c, n) == [i \in 1..n |-> c]

OkResult == [ok |-> TRUE, err |-> "", msg |-> ""]
Err(kind, text) == [ok |-> FALSE, err |-> kind, msg |-> text]

\* Mutant of validate: only the length is checked.
validate_length_only(hash) ==
  IF Len(hash) # HashLen THEN Err("InvalidPath", "Hash must be 64 characters")
  ELSE OkResult

\* ContentHash::validate
validate(hash) ==
  IF Len(hash) # HashLen THEN Err("InvalidPath", "Hash must be 64 characters")
  ELSE IF \E i \in 1..Len(hash) : hash[i] \notin HEX_DIGITS
       THEN Err("InvalidPath", "Hash must only contain hex characters")
  ELSE OkResult

NoFile == [kind |-> "none", data |-> ""]
RegularFile(content) == [kind |-> "file", data |-> content]
Symlink == [kind |-> "link", data |-> ""]
Directory == [kind |-> "dir", data |-> ""]

\* The directory entry of cache_dir under a file name.
Entry(name) == IF name \in DOMAIN cacheFiles THEN cacheFiles[name] ELSE NoFile

\* Path::canonicalize of cache_dir/name: [ok, path]; it fails for a missing entry
\* and for a symlink whose target is missing.
canonicalize(name) ==
  LET en == Entry(name)
  IN IF ~cacheRoot THEN [ok |-> FALSE, path |-> [dir |-> "", name |-> <<>>]]
     ELSE IF en.kind \in {"file", "dir"}
          THEN [ok |-> TRUE, path |-> [dir |-> "canonical_cache", name |-> name]]
     ELSE IF en.kind = "link" /\ outsideFile.kind = "file"
          THEN [ok |-> TRUE, path |-> [dir |-> "outside", name |-> <<"t", "a", "r", "g", "e",
              "t">>]]
     ELSE [ok |-> FALSE, path |-> [dir |-> "", name |-> <<>>]]

\* Path::exists of cache_dir/name (symlinks are followed).
path_exists(name) ==
  /\ cacheRoot
  /\ \/ Entry(name).kind \in {"file", "dir"}
     \/ Entry(name).kind = "link" /\ outsideFile.kind = "file"

NoPath == [dir |-> "", name |-> <<>>]

\* Mutant of get_path: the resolved path is not compared with the cache root.
get_path_unchecked(hash) ==
  LET filename == hash \o SVG_EXT
  IN IF ~validate(hash).ok
     THEN [res |-> validate(hash), path |-> NoPath, fs |-> <<>>]
     ELSE IF ~cacheRoot
     THEN [res |-> Err("InvalidPath", "Cannot canonicalize cache dir"), path |-> NoPath,
           fs |-> <<"canonicalize cache_dir">>]
     ELSE [res |-> OkResult, path |-> [dir |-> "cache_dir", name |-> filename],
           fs |-> <<"canonicalize cache_dir", "canonicalize path">>]

\* DiagramCache::get_path: [res, path, fs], fs the filesystem calls it made.
get_path(hash) ==
  LET filename == hash \o SVG_EXT
      path == [dir |-> "cache_dir", name |-> filename]
      direct == canonicalize(filename)
      canonical_path ==
        IF direct.ok THEN direct.path ELSE [dir |-> "canonical_cache", name |-> filename]
      calls == <<"canonicalize cache_dir", "canonicalize path">>
                 \o (IF direct.ok THEN <<>> ELSE <<"canonicalize cache_dir">>)
  IN IF ~validate(hash).ok
     THEN [res |-> validate(hash), path |-> NoPath, fs |-> <<>>]
     ELSE IF ~cacheRoot
     THEN [res |-> Err("InvalidPath", "Cannot canonicalize cache dir"), path |-> NoPath,
           fs |-> <<"canonicalize cache_dir">>]
     ELSE IF canonical_path.dir # "canonical_cache"
     THEN [res |-> Err("InvalidPath", "Path traversal attempt detected"), path |-> NoPath,
           fs |-> calls]
     ELSE [res |-> OkResult, path |-> path, fs |-> calls]

\* DiagramCache::exists: [value, fs]
exists(hash) ==
  LET p == get_path(hash)
  IN IF p.res.ok THEN [value |-> path_exists(p.path.name), fs |-> p.fs \o <<"exists">>]
     ELSE [value |-> FALSE, fs |-> p.fs]

None == [some |-> FALSE, v |-> ""]
Some(v) == [some |-> TRUE, v |-> v]

\* DiagramCache::get: [res, value, fs]; read_to_string fails on a directory.
get(hash) ==
  LET p == get_path(hash)
  IN IF ~p.res.ok THEN [res |-> p.res, value |-> None, fs |-> p.fs]
     ELSE IF ~path_exists(p.path.name)
     THEN [res |-> OkResult, value |-> None, fs |-> p.fs \o <<"exists">>]
     ELSE IF Entry(p.path.name).kind = "file"
     THEN [res |-> OkResult, value |-> Some(Entry(p.path.name).data),
           fs |-> p.fs \o <<"exists", "read_to_string">>]
     ELSE [res |-> Err("ReadError", "read_to_string"), value |-> None,
           fs |-> p.fs \o <<"exists", "read_to_string">>]

\* Mutant of put: an entry that is already there is kept.
put_keep_existing(hash, content) ==
  LET p == get_path(hash)
      name == p.path.name
  IN IF ~p.res.ok
     THEN [res |-> p.res, files |-> cacheFiles, outside |-> outsideFile, root |-> cacheRoot,
           fs |-> p.fs]
     ELSE IF Entry(name).kind # "none"
     THEN [res |-> OkResult, files |-> cacheFiles, outside |-> outsideFile, root |-> TRUE,
           fs |-> p.fs]
     ELSE [res |-> OkResult,
           files |-> [n \in DOMAIN cacheFiles \cup {name} |->
                        IF n = name THEN RegularFile(content) ELSE cacheFiles[n]],
           outside |-> outsideFile, root |-> TRUE,
           fs |-> p.fs \o <<"create_dir_all", "write">>]

\* DiagramCache::put: [res, files, outside, root, fs], files, outside and root
\* being the directory, the outside file and whether cache_dir exists after the
\* call.  create_dir_all runs only after get_path returned Ok; fs::write follows
\* a symlink and fails on a directory.
put(hash, content) ==
  LET p == get_path(hash)
      name == p.path.name
      calls == p.fs \o <<"create_dir_all", "write">>
  IN IF ~p.res.ok
     THEN [res |-> p.res, files |-> cacheFiles, outside |-> outsideFile, root |-> cacheRoot,
           fs |-> p.fs]
     ELSE IF Entry(name).kind = "dir"
     THEN [res |-> Err("WriteError", "write"), files |-> cacheFiles, outside |-> outsideFile,
           root |-> TRUE, fs |-> calls]
     ELSE IF Entry(name).kind = "link"
     THEN [res |-> OkResult, files |-> cacheFiles, outside |-> RegularFile(content),
           root |-> TRUE, fs |-> calls]
     ELSE [res |-> OkResult,
           files |-> [n \in DOMAIN cacheFiles \cup {name} |->
                        IF n = name THEN RegularFile(content) ELSE cacheFiles[n]],
           outside |-> outsideFile, root |-> TRUE,
           fs |-> calls]

(***************************************************************************)
(* Cache runs.  The digests handed to the cache are two well-formed ones   *)
(* and the malformed ones of the repository's tests.                       *)
(***************************************************************************)
VALID_DIGESTS == {Repeat("a", HashLen), Repeat("F", HashLen)}

DIGESTS ==
  VALID_DIGESTS \cup
    {Repeat("g", HashLen), <<"a", "b", "c">>, <<".", ".", "/", ".", ".", "/", ".", ".", "/", "e",
        "t", "c", "/", "p", "a", "s", "s", "w", "d">>, Repeat("a", HashLen + 1)}

CONTENTS == {"<svg>1</svg>", "<svg>2</svg>"}

NoOp == [op |-> "", hash |-> <<>>, res |-> OkResult, path |-> NoPath, value |-> None,
         found |-> FALSE, fs |-> <<>>]

\* DiagramCache::new on a directory that exists and is empty.
CacheInit ==
  /\ cacheRoot = TRUE
  /\ cacheFiles = <<>>
  /\ outsideFile = NoFile
  /\ cacheOp = NoOp
  /\ lastPut = [h \in DIGESTS |-> None]

\* DiagramCache::new on a directory that may not exist.
CacheFsInit ==
  /\ cacheRoot \in BOOLEAN
  /\ cacheFiles = <<>>
  /\ outsideFile = NoFile
  /\ cacheOp = NoOp
  /\ lastPut = [h \in DIGESTS |-> None]

CacheGetPath(h) ==
  /\ cacheOp' = [NoOp EXCEPT !.op = "get_path", !.hash = h, !.res = get_path(h).res,
                             !.path = get_path(h).path, !.fs = get_path(h).fs]
  /\ UNCHANGED <<cacheRoot, cacheFiles, outsideFile, lastPut, sanVars, docVars, valVars, scanVars, hashVars, cmdVars, storeVars, loopVars, mmdcVars, reqVars, raceVars>>

CacheExists(h) ==
  /\ cacheOp' = [NoOp EXCEPT !.op = "exists", !.hash = h, !.found = exists(h).value,
                             !.fs = exists(h).fs]
  /\ UNCHANGED <<cacheRoot, cacheFiles, outsideFile, lastPut, sanVars, docVars, valVars, scanVars, hashVars, cmdVars, storeVars, loopVars, mmdcVars, reqVars, raceVars>>

CacheGet(h) ==
  /\ cacheOp' = [NoOp EXCEPT !.op = "get", !.hash = h, !.res = get(h).res,
                             !.value = get(h).value, !.fs = get(h).fs]
  /\ UNCHANGED <<cacheRoot, cacheFiles, outsideFile, lastPut, sanVars, docVars, valVars, scanVars, hashVars, cmdVars, storeVars, loopVars, mmdcVars, reqVars, raceVars>>

CachePut(h, content) ==
  /\ cacheOp' = [NoOp EXCEPT !.op = "put", !.hash = h, !.res = put(h, content).res,
                             !.fs = put(h, content).fs]
  /\ cacheFiles' = put(h, content).files
  /\ outsideFile' = put(h, content).outside
  /\ lastPut' = IF put(h, content).res.ok THEN [lastPut EXCEPT ![h] = Some(content)]
                ELSE lastPut
  /\ cacheRoot' = put(h, content).root
  /\ UNCHANGED <<sanVars, docVars, valVars, scanVars, hashVars, cmdVars, storeVars, loopVars, mmdcVars, reqVars, raceVars>>

\* Another process replaces a cache entry by a symlink or a directory, or removes it.
EnvSetEntry(h, entry) ==
  /\ cacheRoot
  /\ Entry(h \o SVG_EXT) # entry
  /\ cacheFiles' =
       IF entry = NoFile
       THEN [n \in DOMAIN cacheFiles \ {h \o SVG_EXT} |-> cacheFiles[n]]
       ELSE [n \in DOMAIN cacheFiles \cup {h \o SVG_EXT} |->
               IF n = h \o SVG_EXT THEN entry ELSE cacheFiles[n]]
  /\ UNCHANGED <<cacheRoot, outsideFile, cacheOp, lastPut, sanVars, docVars, valVars, scanVars, hashVars, cmdVars, storeVars, loopVars, mmdcVars, reqVars, raceVars>>

\* Another process creates or removes the file outside the cache root.
EnvSetOutside(f) ==
  /\ outsideFile # f
  /\ outsideFile' = f
  /\ UNCHANGED <<cacheRoot, cacheFiles, cacheOp, lastPut, sanVars, docVars, valVars, scanVars, hashVars, cmdVars, storeVars, loopVars, mmdcVars, reqVars, raceVars>>


(***************************************************************************)
(* Cache claims.                                                           *)
(***************************************************************************)
\* A digest that is not exactly 64 characters long or holds a non-hex character,
\* stated on the characters and not through validate.
Malformed(h) ==
  \/ Cardinality(DOMAIN h) # 64
  \/ \E i \in DOMAIN h :
       h[i] \notin {"0", "1", "2", "3", "4", "5", "6", "7", "8", "9", "a", "b", "c", "d",
                    "e", "f", "A", "B", "C", "D", "E", "F"}

\* C8: get_path rejects a malformed digest with InvalidPath before any filesystem
\* access; get and put return the same error and exists returns false, also
\* without any filesystem access.
C8_MalformedDigestRejected ==
  (cacheOp.op # "" /\ Malformed(cacheOp.hash)) =>
    /\ cacheOp.fs = <<>>
    /\ cacheOp.op \in {"get_path", "get", "put"} =>
         (~cacheOp.res.ok /\ cacheOp.res.err = "InvalidPath")
    /\ cacheOp.op = "get" => cacheOp.value = None
    /\ cacheOp.op = "exists" => ~cacheOp.found

\* C8 witness: the digest "g" * 64 was looked up and rejected.
C8_Witness ==
  /\ cacheOp.op = "get_path"
  /\ cacheOp.hash = Repeat("g", 64)
  /\ cacheOp.res.err = "InvalidPath"

C10_GetReturnsLastPut ==
  /\ \A d \in VALID_DIGESTS :
       /\ get(d).res.ok
       /\ get(d).value = lastPut[d]
       /\ exists(d).value = lastPut[d].some
  /\ (cacheOp.op = "get" /\ cacheOp.hash \in VALID_DIGESTS) =>
       (cacheOp.res.ok /\ cacheOp.value = lastPut[cacheOp.hash])
  /\ (cacheOp.op = "exists" /\ cacheOp.hash \in VALID_DIGESTS) =>
       cacheOp.found = lastPut[cacheOp.hash].some

\* C10 witness: a get returned the content of the second put of its digest while
\* the other digest still holds what was put for it.
C10_Witness ==
  /\ cacheOp.op = "get"
  /\ cacheOp.hash = Repeat("a", 64)
  /\ cacheOp.value = Some("<svg>2</svg>")
  /\ lastPut[Repeat("F", 64)] = Some("<svg>1</svg>")

\* C11: after a put with a well-formed digest the cache root exists, and the
\* put did not fail for want of it.
C11_PutCreatesRoot ==
  (cacheOp.op = "put" /\ cacheOp.hash \in VALID_DIGESTS) =>
    /\ cacheRoot
    /\ cacheOp.res.msg # "Cannot canonicalize cache dir"

(***************************************************************************)
(* The document scanner and the edit builder (lsp/src/main.rs).  A         *)
(* document is its full text; the files of the disk are a function from    *)
(* absolute path to content.                                               *)
(***************************************************************************)
\* str::lines from index i: split at line feeds, a carriage return before the
\* line feed dropped, no empty last line after a final line feed.
RECURSIVE LinesFrom(_, _)
LinesFrom(doc, i) ==
  LET nl == FindStr(doc, i, <<"\n">>)
      to == IF nl > i /\ doc[nl - 1] = "\r" THEN nl - 2 ELSE nl - 1
  IN IF i > Len(doc) THEN <<>>
     ELSE IF nl = 0 THEN <<SubSeq(doc, i, Len(doc))>>
     ELSE <<SubSeq(doc, i, to)>> \o LinesFrom(doc, nl + 1)

lines(doc) == LinesFrom(doc, 1)

\* [&str]::join
RECURSIVE join(_, _)
join(ls, sep) ==
  IF ls = <<>> THEN <<>>
  ELSE IF Len(ls) = 1 THEN ls[1]
  ELSE ls[1] \o sep \o join(Tail(ls), sep)

\* The grave accent, which a string of this language cannot hold, is written
\* "grave"; like every other character it is one element of a text.
FENCE == <<"grave", "grave", "grave">>
FENCE_OPEN == <<"grave", "grave", "grave", "m", "e", "r", "m", "a", "i", "d">>
MARKER_PREFIX == <<"<", "!", "-", "-", " ", "m", "e", "r", "m", "a", "i", "d", "-", "s", "o", "u",
    "r", "c", "e", "-", "f", "i", "l", "e", ":">>
MARKER_SUFFIX == <<"-", "-", ">">>

\* The closing-fence test of find_all_mermaid_fences.
IsFenceClose(line) ==
  trim_start(line) = FENCE \/ StartsWithAt(trim_start(line), 1, FENCE \o <<"\r">>)

\* The opening-fence test of find_all_mermaid_fences.
IsFenceOpen(line) ==
  /\ StartsWithAt(trim_start(line), 1, FENCE_OPEN)
  /\ ~StartsWithAt(trim_start(line), 1, <<"grave", "grave", "grave", "grave">>)

\* Mutant of FencesFrom: a fence runs to the last closing line, not the first.
RECURSIVE FencesFrom_last_close(_, _)
FencesFrom_last_close(ls, i) ==
  LET closes == {j \in (i + 1)..(Len(ls) - 1) : IsFenceClose(ls[j + 1])}
      end == Greatest(closes)
  IN IF i >= Len(ls) THEN <<>>
     ELSE IF ~IsFenceOpen(ls[i + 1]) THEN FencesFrom_last_close(ls, i + 1)
     ELSE IF closes = {} THEN <<>>
     ELSE <<[start_line |-> i, end_line |-> end,
             code |-> join(SubSeq(ls, i + 2, end), <<"\n">>)]>>
            \o FencesFrom_last_close(ls, end + 1)

\* Mutant of FencesFrom: an opening without a closing line runs to the end of
\* the lines.
RECURSIVE FencesFrom_to_end(_, _)
FencesFrom_to_end(ls, i) ==
  LET closes == {j \in (i + 1)..(Len(ls) - 1) : IsFenceClose(ls[j + 1])}
      end == IF closes = {} THEN Len(ls) - 1 ELSE Least(closes)
  IN IF i >= Len(ls) THEN <<>>
     ELSE IF ~IsFenceOpen(ls[i + 1]) THEN FencesFrom_to_end(ls, i + 1)
     ELSE <<[start_line |-> i, end_line |-> end,
             code |-> join(SubSeq(ls, i + 2, end), <<"\n">>)]>>
            \o FencesFrom_to_end(ls, end + 1)

\* Find all mermaid fences from line index i (counted from 0): MermaidFence
\* records [start_line, end_line, code].
RECURSIVE FencesFrom(_, _)
FencesFrom(ls, i) ==
  LET closes == {j \in (i + 1)..(Len(ls) - 1) : IsFenceClose(ls[j + 1])}
      end == Least(closes)
  IN IF i >= Len(ls) THEN <<>>
     ELSE IF ~IsFenceOpen(ls[i + 1]) THEN FencesFrom(ls, i + 1)
     ELSE IF closes = {} THEN <<>>
     ELSE <<[start_line |-> i, end_line |-> end,
             code |-> join(SubSeq(ls, i + 2, end), <<"\n">>)]>> \o FencesFrom(ls, end + 1)

find_all_mermaid_fences(ls) == FencesFrom(ls, 0)

\* Mutant of find_mermaid_fence: the closing line is not inside the fence.
find_mermaid_fence_before_close(ls, cursor_line) ==
  SelectSeq(find_all_mermaid_fences(ls),
            LAMBDA f : cursor_line >= f.start_line /\ cursor_line < f.end_line)

\* Find a mermaid fence that contains the given cursor line: the fences that do,
\* in document order (the first is the one returned).
find_mermaid_fence(ls, cursor_line) ==
  SelectSeq(find_all_mermaid_fences(ls),
            LAMBDA f : cursor_line >= f.start_line /\ cursor_line <= f.end_line)

\* Extract the source file path from a mermaid comment line: [found, value].
extract_source_file_path(line) ==
  LET trimmed == trim(line)
      n == Len(trimmed)
  IN IF /\ StartsWithAt(trimmed, 1, MARKER_PREFIX)
        /\ StartsWithAt(trimmed, n - Len(MARKER_SUFFIX) + 1, MARKER_SUFFIX)
     THEN [found |-> TRUE,
           value |-> trim(SubSeq(trimmed, Len(MARKER_PREFIX) + 1, n - Len(MARKER_SUFFIX)))]
     ELSE [found |-> FALSE, value |-> <<>>]

\* Mutant of BlockEnd: the first non-blank line after the comment ends the
\* block whatever it holds.
BlockEnd_any_line(ls, i) ==
  LET after == {j \in (i + 1)..(Len(ls) - 1) : trim(ls[j + 1]) # <<>>}
  IN IF after # {} THEN Least(after) ELSE i

\* The end line of the rendered block whose comment is on line i: the first
\* non-blank line after it when that is an image reference, else i.
BlockEnd(ls, i) ==
  LET after == {j \in (i + 1)..(Len(ls) - 1) : trim(ls[j + 1]) # <<>>}
      j == Least(after)
  IN IF after # {} /\ StartsWithAt(trim(ls[j + 1]), 1, <<"!", "[">>)
        /\ contains(trim(ls[j + 1]), <<"(", ".", "m", "e", "r", "m", "a", "i", "d", "/">>)
     THEN j
     ELSE i

\* Mutant of BlocksFrom: the scan resumes two lines after the block.
RECURSIVE BlocksFrom_skip_line(_, _)
BlocksFrom_skip_line(ls, i) ==
  IF i >= Len(ls) THEN <<>>
  ELSE IF ~extract_source_file_path(ls[i + 1]).found THEN BlocksFrom_skip_line(ls, i + 1)
  ELSE <<[comment_line |-> i, end_line |-> BlockEnd(ls, i),
          source_file |-> extract_source_file_path(ls[i + 1]).value]>>
         \o BlocksFrom_skip_line(ls, BlockEnd(ls, i) + 2)

\* Find all rendered mermaid blocks from line index i: RenderedBlock records
\* [comment_line, end_line, source_file].
RECURSIVE BlocksFrom(_, _)
BlocksFrom(ls, i) ==
  IF i >= Len(ls) THEN <<>>
  ELSE IF ~extract_source_file_path(ls[i + 1]).found THEN BlocksFrom(ls, i + 1)
  ELSE <<[comment_line |-> i, end_line |-> BlockEnd(ls, i),
          source_file |-> extract_source_file_path(ls[i + 1]).value]>>
         \o BlocksFrom(ls, BlockEnd(ls, i) + 1)

find_all_rendered_blocks(ls) == BlocksFrom(ls, 0)

(***************************************************************************)
(* Unsigned words wider than the integers of the checker: a word is the    *)
(* sequence of its 16-bit limbs, the most significant first.               *)
(***************************************************************************)
\* Bitwise exclusive or, and bitwise and, of two 4-bit numbers.
XOR_NIBBLE ==
  << <<0, 1, 2, 3, 4, 5, 6, 7, 8, 9, 10, 11, 12, 13, 14, 15>>,
     <<1, 0, 3, 2, 5, 4, 7, 6, 9, 8, 11, 10, 13, 12, 15, 14>>,
     <<2, 3, 0, 1, 6, 7, 4, 5, 10, 11, 8, 9, 14, 15, 12, 13>>,
     <<3, 2, 1, 0, 7, 6, 5, 4, 11, 10, 9, 8, 15, 14, 13, 12>>,
     <<4, 5, 6, 7, 0, 1, 2, 3, 12, 13, 14, 15, 8, 9, 10, 11>>,
     <<5, 4, 7, 6, 1, 0, 3, 2, 13, 12, 15, 14, 9, 8, 11, 10>>,
     <<6, 7, 4, 5, 2, 3, 0, 1, 14, 15, 12, 13, 10, 11, 8, 9>>,
     <<7, 6, 5, 4, 3, 2, 1, 0, 15, 14, 13, 12, 11, 10, 9, 8>>,
     <<8, 9, 10, 11, 12, 13, 14, 15, 0, 1, 2, 3, 4, 5, 6, 7>>,
     <<9, 8, 11, 10, 13, 12, 15, 14, 1, 0, 3, 2, 5, 4, 7, 6>>,
     <<10, 11, 8, 9, 14, 15, 12, 13, 2, 3, 0, 1, 6, 7, 4, 5>>,
     <<11, 10, 9, 8, 15, 14, 13, 12, 3, 2, 1, 0, 7, 6, 5, 4>>,
     <<12, 13, 14, 15, 8, 9, 10, 11, 4, 5, 6, 7, 0, 1, 2, 3>>,
     <<13, 12, 15, 14, 9, 8, 11, 10, 5, 4, 7, 6, 1, 0, 3, 2>>,
     <<14, 15, 12, 13, 10, 11, 8, 9, 6, 7, 4, 5, 2, 3, 0, 1>>,
     <<15, 14, 13, 12, 11, 10, 9, 8, 7, 6, 5, 4, 3, 2, 1, 0>> >>

AND_NIBBLE ==
  << <<0, 0, 0, 0, 0, 0, 0, 0, 0, 0, 0, 0, 0, 0, 0, 0>>,
     <<0, 1, 0, 1, 0, 1, 0, 1, 0, 1, 0, 1, 0, 1, 0, 1>>,
     <<0, 0, 2, 2, 0, 0, 2, 2, 0, 0, 2, 2, 0, 0, 2, 2>>,
     <<0, 1, 2, 3, 0, 1, 2, 3, 0, 1, 2, 3, 0, 1, 2, 3>>,
     <<0, 0, 0, 0, 4, 4, 4, 4, 0, 0, 0, 0, 4, 4, 4, 4>>,
     <<0, 1, 0, 1, 4, 5, 4, 5, 0, 1, 0, 1, 4, 5, 4, 5>>,
     <<0, 0, 2, 2, 4, 4, 6, 6, 0, 0, 2, 2, 4, 4, 6, 6>>,
     <<0, 1, 2, 3, 4, 5, 6, 7, 0, 1, 2, 3, 4, 5, 6, 7>>,
     <<0, 0, 0, 0, 0, 0, 0, 0, 8, 8, 8, 8, 8, 8, 8, 8>>,
     <<0, 1, 0, 1, 0, 1, 0, 1, 8, 9, 8, 9, 8, 9, 8, 9>>,
     <<0, 0, 2, 2, 0, 0, 2, 2, 8, 8, 10, 10, 8, 8, 10, 10>>,
     <<0, 1, 2, 3, 0, 1, 2, 3, 8, 9, 10, 11, 8, 9, 10, 11>>,
     <<0, 0, 0, 0, 4, 4, 4, 4, 8, 8, 8, 8, 12, 12, 12, 12>>,
     <<0, 1, 0, 1, 4, 5, 4, 5, 8, 9, 8, 9, 12, 13, 12, 13>>,
     <<0, 0, 2, 2, 4, 4, 6, 6, 8, 8, 10, 10, 12, 12, 14, 14>>,
     <<0, 1, 2, 3, 4, 5, 6, 7, 8, 9, 10, 11, 12, 13, 14, 15>> >>

\* A bitwise operation, given by its table, on two 16-bit limbs.
Bitwise16(t, a, b) ==
  t[(a \div 4096) + 1][(b \div 4096) + 1] * 4096
    + t[((a \div 256) % 16) + 1][((b \div 256) % 16) + 1] * 256
    + t[((a \div 16) % 16) + 1][((b \div 16) % 16) + 1] * 16
    + t[(a % 16) + 1][(b % 16) + 1]

\* ^, & and ! on words.
Xor(a, b) == SubSeq([i \in 1..Len(a) |-> Bitwise16(XOR_NIBBLE, a[i], b[i])], 1, Len(a))
And(a, b) == SubSeq([i \in 1..Len(a) |-> Bitwise16(AND_NIBBLE, a[i], b[i])], 1, Len(a))
Not(a) == SubSeq([i \in 1..Len(a) |-> 65535 - a[i]], 1, Len(a))

\* The carry into limb i - 1 of the sum of two words.
RECURSIVE Carry(_, _, _)
Carry(a, b, i) ==
  IF i > Len(a) THEN 0 ELSE (a[i] + b[i] + Carry(a, b, i + 1)) \div 65536

\* wrapping_add on words.
Add(a, b) ==
  SubSeq([i \in 1..Len(a) |-> (a[i] + b[i] + Carry(a, b, i + 1)) % 65536], 1, Len(a))

\* Limb i of a word, the limbs taken in a circle.
Limb(a, i) == a[((i - 1) % Len(a)) + 1]

\* rotate_right and rotate_left by n bits, and >> by n < 16 bits, on words.
RotateRight(a, n) ==
  SubSeq([i \in 1..Len(a) |->
            (Limb(a, i + Len(a) - (n \div 16)) \div (2 ^ (n % 16)))
              + (Limb(a, i + Len(a) - (n \div 16) - 1) % (2 ^ (n % 16))) * (2 ^ (16 - (n % 16)))],
         1, Len(a))
RotateLeft(a, n) == RotateRight(a, 16 * Len(a) - n)
ShiftRight(a, n) ==
  SubSeq([i \in 1..Len(a) |->
            (a[i] \div (2 ^ n)) + (IF i = 1 THEN 0 ELSE (a[i - 1] % (2 ^ n)) * (2 ^ (16 - n)))],
         1, Len(a))

\* The code of a character (0 for one outside the table).
CharCode(c) ==
  LET table == <<" ", "!", "\"", "#", "$", "%", "&", "'", "(", ")", "*", "+", ",", "-", ".", "/",
      "0", "1", "2", "3", "4", "5", "6", "7", "8", "9", ":", ";", "<", "=", ">", "?", "@", "A",
          "B", "C", "D", "E", "F", "G", "H", "I", "J", "K", "L", "M", "N", "O", "P", "Q", "R",
              "S", "T", "U", "V", "W", "X", "Y", "Z", "[">>
               \o <<"\\">> \o <<"]", "^", "_", "grave", "a", "b", "c", "d", "e", "f", "g", "h",
                   "i", "j", "k", "l", "m", "n", "o", "p", "q", "r", "s", "t", "u", "v", "w", "x",
                       "y", "z", "{", "|">>
               \o <<"}", "~">>
      at == {i \in 1..Len(table) : table[i] = c}
  IN IF c = "\n" THEN 10 ELSE IF c = "\r" THEN 13 ELSE IF c = "\t" THEN 9
     ELSE IF at = {} THEN 0 ELSE 31 + Least(at)

\* The bytes of a text (str::as_bytes of ASCII text).
as_bytes(s) == SubSeq([i \in 1..Len(s) |-> CharCode(s[i])], 1, Len(s))

(***************************************************************************)
(* SHA-256 (the sha2 crate, FIPS 180-4) on 32-bit words of two limbs.      *)
(***************************************************************************)
\* The round constants and the initial hash value.
K256 ==
  << <<17034, 12184>>, <<28983, 17553>>, <<46528, 64463>>, <<59829, 56229>>,
     <<14678, 49755>>, <<23025, 4593>>, <<37439, 33444>>, <<43804, 24277>>,
     <<55303, 43672>>, <<4739, 23297>>, <<9265, 34238>>, <<21772, 32195>>,
     <<29374, 23924>>, <<32990, 45566>>, <<39900, 1703>>, <<49563, 61812>>,
     <<58523, 27073>>, <<61374, 18310>>, <<4033, 40390>>, <<9228, 41420>>,
     <<11753, 11375>>, <<19060, 33962>>, <<23728, 43484>>, <<30457, 35034>>,
     <<38974, 20818>>, <<43057, 50797>>, <<45059, 10184>>, <<48985, 32711>>,
     <<50912, 3059>>, <<54695, 37191>>, <<1738, 25425>>, <<5161, 10599>>,
     <<10167, 2693>>, <<11803, 8504>>, <<19756, 28156>>, <<21304, 3347>>,
     <<25866, 29524>>, <<30314, 2747>>, <<33218, 51502>>, <<37490, 11397>>,
     <<41663, 59553>>, <<43034, 26187>>, <<49739, 35696>>, <<51052, 20899>>,
     <<53650, 59417>>, <<54937, 1572>>, <<62478, 13701>>, <<4202, 41072>>,
     <<6564, 49430>>, <<7735, 27656>>, <<10056, 30540>>, <<13488, 48309>>,
     <<14620, 3251>>, <<20184, 43594>>, <<23452, 51791>>, <<26670, 28659>>,
     <<29839, 33518>>, <<30885, 25455>>, <<33992, 30740>>, <<36039, 520>>,
     <<37054, 65530>>, <<42064, 27883>>, <<48889, 41975>>, <<50801, 30962>> >>

H256 ==
  << <<27145, 58983>>, <<47975, 44677>>, <<15470, 62322>>, <<42319, 62778>>,
     <<20750, 21119>>, <<39685, 26764>>, <<8067, 55723>>, <<23520, 52505>> >>

\* The padded message: the byte 0x80, zero bytes up to 56 modulo 64, and the
\* length in bits as 8 bytes, the most significant first.
Sha256Pad(bytes) ==
  bytes \o <<128>> \o [i \in 1..((119 - (Len(bytes) % 64)) % 64) |-> 0]
    \o <<0, 0, 0, 0, ((8 * Len(bytes)) \div 16777216) % 256, ((8 * Len(bytes)) \div 65536) % 256,
         ((8 * Len(bytes)) \div 256) % 256, (8 * Len(bytes)) % 256>>

\* The 16 big-endian words of the 64-byte block that starts at byte at.
BlockWords(bytes, at) ==
  SubSeq([k \in 1..16 |-> <<bytes[at + 4 * k - 4] * 256 + bytes[at + 4 * k - 3],
                           bytes[at + 4 * k - 2] * 256 + bytes[at + 4 * k - 1]>>], 1, 16)

\* The message schedule, grown from the 16 words of the block to 64 words.
RECURSIVE Schedule(_)
Schedule(w) ==
  IF Len(w) = 64 THEN w
  ELSE Schedule(Append(w,
         Add(Add(Xor(Xor(RotateRight(w[Len(w) - 1], 17), RotateRight(w[Len(w) - 1], 19)),
                     ShiftRight(w[Len(w) - 1], 10)),
                 w[Len(w) - 6]),
             Add(Xor(Xor(RotateRight(w[Len(w) - 14], 7), RotateRight(w[Len(w) - 14], 18)),
                     ShiftRight(w[Len(w) - 14], 3)),
                 w[Len(w) - 15]))))

\* The two temporaries of a round on the working variables s = a..h.
Temp1(s, k, w) ==
  Add(Add(Add(s[8], Xor(Xor(RotateRight(s[5], 6), RotateRight(s[5], 11)), RotateRight(s[5], 25))),
          Xor(And(s[5], s[6]), And(Not(s[5]), s[7]))),
      Add(k, w))
Temp2(s) ==
  Add(Xor(Xor(RotateRight(s[1], 2), RotateRight(s[1], 13)), RotateRight(s[1], 22)),
      Xor(Xor(And(s[1], s[2]), And(s[1], s[3])), And(s[2], s[3])))

\* One round, the temporaries in hand.
Sha256Round(s, t1, t2) ==
  <<Add(t1, t2), s[1], s[2], s[3], Add(s[4], t1), s[5], s[6], s[7]>>

\* Rounds lo..hi on the working variables: the first half of the rounds, then
\* the second half on the variables m that the first half leaves.
RECURSIVE Sha256Rounds(_, _, _, _)
Sha256Rounds(s, w, lo, hi) ==
  IF lo = hi THEN Sha256Round(s, Temp1(s, K256[lo], w[lo]), Temp2(s))
  ELSE CHOOSE r \in {Sha256Rounds(m, w, ((lo + hi) \div 2) + 1, hi) :
                      m \in {Sha256Rounds(s, w, lo, (lo + hi) \div 2)}} : TRUE

\* The hash value after one more block.
AddWords(h, s) == SubSeq([i \in 1..8 |-> Add(h[i], s[i])], 1, 8)
Sha256Compress(h, block) == AddWords(h, Sha256Rounds(h, Schedule(block), 1, 64))

\* The hash value after the blocks from byte at on.
RECURSIVE Sha256Blocks(_, _, _)
Sha256Blocks(h, bytes, at) ==
  IF at > Len(bytes) THEN h
  ELSE Sha256Blocks(Sha256Compress(h, BlockWords(bytes, at)), bytes, at + 64)

\* Sha256::new, update and finalize: the digest as 8 words.
Sha256(bytes) == Sha256Blocks(H256, Sha256Pad(bytes), 1)

(***************************************************************************)
(* SipHash 1-3 (DefaultHasher::new, keys 0 and 0) on 64-bit words of four  *)
(* limbs.                                                                  *)
(***************************************************************************)
\* The state v0, v1, v2, v3 of a hasher with the keys 0 and 0.
SIP_INIT ==
  << <<29551, 28005, 28787, 25973>>, <<25711, 29281, 28260, 28525>>,
     <<27769, 26469, 28261, 29281>>, <<29797, 25698, 31092, 25971>> >>

\* The halves of one round of compression.
SipHalf1(v) ==
  <<RotateLeft(Add(v[1], v[2]), 32), Xor(RotateLeft(v[2], 13), Add(v[1], v[2])),
    Add(v[3], v[4]), Xor(RotateLeft(v[4], 16), Add(v[3], v[4]))>>
SipHalf2(v) ==
  <<Add(v[1], v[4]), Xor(RotateLeft(v[2], 17), Add(v[3], v[2])),
    RotateLeft(Add(v[3], v[2]), 32), Xor(RotateLeft(v[4], 21), Add(v[1], v[4]))>>
SipRound(v) == SipHalf2(SipHalf1(v))

\* The 64-bit little-endian word of the 8 bytes from byte at on, bytes beyond
\* the end counting as b.
SipWord(bytes, at, b) ==
  SubSeq([i \in 1..4 |->
            (IF at + 9 - 2 * i <= Len(bytes) THEN bytes[at + 9 - 2 * i] ELSE IF i = 1 THEN b ELSE 0)
              * 256
            + (IF at + 8 - 2 * i <= Len(bytes) THEN bytes[at + 8 - 2 * i] ELSE 0)], 1, 4)

\* v3 ^= m; one round; v0 ^= m.
SipXorV0(v, m) == <<Xor(v[1], m), v[2], v[3], v[4]>>
SipCompress(v, m) == SipXorV0(SipRound(<<v[1], v[2], v[3], Xor(v[4], m)>>), m)

\* write: the state after the whole 8-byte words from byte at on; finish: the
\* last word holds the bytes left and the length, v2 ^= 0xff, three rounds.
RECURSIVE SipWrite(_, _, _)
SipWrite(v, bytes, at) ==
  IF at + 7 <= Len(bytes)
  THEN SipWrite(SipCompress(v, SipWord(bytes, at, 0)), bytes, at + 8)
  ELSE SipCompress(v, SipWord(bytes, at, Len(bytes) % 256))
SipFinalize(v) ==
  SipRound(SipRound(SipRound(<<v[1], v[2], Xor(v[3], <<0, 0, 0, 255>>), v[4]>>)))
SipFinish(v) == Xor(Xor(v[1], v[2]), Xor(v[3], v[4]))

\* u64 Display: the decimal digits of a word.
RECURSIVE DivTen(_, _, _)
DivTen(a, i, r) ==
  IF i > Len(a) THEN <<r>>
  ELSE <<(r * 65536 + a[i]) \div 10>> \o DivTen(a, i + 1, (r * 65536 + a[i]) % 10)
RECURSIVE WordToText(_)
WordToText(a) ==
  IF \A i \in 1..(Len(a) - 1) : a[i] = 0
  THEN NatToText(a[Len(a)])
  ELSE WordToText(SubSeq(DivTen(a, 1, 0), 1, Len(a))) \o <<DIGITS[DivTen(a, 1, 0)[Len(a) + 1] + 1]>>

\* Url::to_file_path: the path of a file: URI, [found, value].
to_file_path(uri) ==
  IF StartsWithAt(uri, 1, <<"f", "i", "l", "e", ":", "/", "/", "/">>)
  THEN [found |-> TRUE, value |-> SubSeq(uri, Len(<<"f", "i", "l", "e", ":", "/",
      "/">>) + 1, Len(uri))]
  ELSE [found |-> FALSE, value |-> <<>>]

\* The index of the last "/" of a path (0 when there is none).
LastSlash(p) ==
  LET at == {i \in 1..Len(p) : p[i] = "/"}
  IN IF at = {} THEN 0 ELSE Greatest(at)

\* Get the document's base directory (where .mermaid/ will be created).
doc_base_dir(uri) ==
  LET p == to_file_path(uri)
  IN IF p.found /\ LastSlash(p.value) > 1
     THEN [found |-> TRUE, value |-> SubSeq(p.value, 1, LastSlash(p.value) - 1)]
     ELSE [found |-> FALSE, value |-> <<>>]

\* Get a short name for the document (without extension).
doc_short_name(uri) ==
  LET p == to_file_path(uri)
      name == SubSeq(p.value, LastSlash(p.value) + 1, Len(p.value))
      dots == {i \in 2..Len(name) : name[i] = "."}
  IN IF ~p.found \/ name = <<>> THEN <<"d", "o", "c", "u", "m", "e", "n", "t">>
     ELSE IF dots = {} THEN name
     ELSE SubSeq(name, 1, Greatest(dots) - 1)

\* Path::join: an absolute path replaces the base.
PathJoin(base, rel) ==
  IF StartsWithAt(rel, 1, <<"/">>) THEN rel ELSE base \o <<"/">> \o rel

\* The components of a path from index i.
RECURSIVE Components(_, _)
Components(p, i) ==
  LET sl == FindStr(p, i, <<"/">>)
  IN IF i > Len(p) THEN <<>>
     ELSE IF sl = 0 THEN <<SubSeq(p, i, Len(p))>>
     ELSE <<SubSeq(p, i, sl - 1)>> \o Components(p, sl + 1)

\* The walk of the operating system along the components of a path.
RECURSIVE Walk(_, _)
Walk(comps, stack) ==
  IF comps = <<>> THEN stack
  ELSE Walk(Tail(comps),
            IF Head(comps) = <<>> \/ Head(comps) = <<".">> THEN stack
            ELSE IF Head(comps) = <<".", ".">>
                 THEN SubSeq(stack, 1, Len(stack) - 1)
                 ELSE Append(stack, Head(comps)))

\* The file an absolute path names when it is opened.
Resolve(p) == <<"/">> \o join(Walk(Components(p, 1), <<>>), <<"/">>)

\* Path::is_file, fs::read_to_string ([found, value]) and fs::write.
is_file(fs, p) == Resolve(p) \in DOMAIN fs

read_to_string(fs, p) ==
  IF is_file(fs, p) THEN [found |-> TRUE, value |-> fs[Resolve(p)]]
  ELSE [found |-> FALSE, value |-> <<>>]

write(fs, p, content) == (Resolve(p) :> content) @@ fs

\* Compute a hash for caching purposes: DefaultHasher::new, code.hash (the
\* bytes of the code and the byte 0xff) and finish.
code_hash(code) == SipFinish(SipFinalize(SipWrite(SIP_INIT, as_bytes(code) \o <<255>>, 1)))

\* Local::now().format("%Y%m%d_%H%M%S") at second now of the modelled minute.
timestamp(now) == <<"2", "0", "2", "4", "0", "1", "0", "1", "_", "1", "2", "0",
    "0">> \o <<DIGITS[(now \div 10) + 1], DIGITS[(now % 10) + 1]>>

\* The SVG file the external renderer writes for a diagram.
mmdc(code) == <<"<", "s", "v", "g", ">">> \o code \o <<"<", "/", "s", "v", "g", ">">>

\* Render Mermaid code to SVG using mmdc CLI; failing is the set of codes the
\* renderer exits with an error for.
render_mermaid(mermaid_code, failing) ==
  IF trim(mermaid_code) = <<>> \/ mermaid_code \in failing
  THEN [ok |-> FALSE, out |-> <<>>]
  ELSE sanitize_svg(mmdc(mermaid_code))

TextEdit(start_line, end_line, end_char, new_text) ==
  [start_line |-> start_line, start_char |-> 0, end_line |-> end_line,
   end_char |-> end_char, new_text |-> new_text]

NoEdit(fs) == [edits |-> <<>>, files |-> fs]

\* The end of create_render_edit, the picture svg in hand: the two files are
\* saved under the time stamp and the fence is replaced by the marker comment
\* and the image reference.
SaveAndReplace(ls, fence, fs, mermaid_dir, doc_name, stamp, image) ==
  [edits |-> <<TextEdit(fence.start_line, fence.end_line, Len(ls[fence.end_line + 1]),
                        MARKER_PREFIX \o <<".", "m", "e", "r", "m", "a", "i", "d",
                            "/">> \o doc_name \o <<"_">> \o stamp
                          \o <<".", "m", "m", "d", " ", "-", "-", ">", "\n", "\n", "!", "[", "M",
                              "e", "r", "m", "a", "i", "d", " ", "D", "i", "a", "g", "r", "a",
                                  "m", "]", "(", ".", "m", "e", "r", "m", "a", "i", "d",
                                      "/">> \o doc_name
                          \o <<"_", "d", "i", "a", "g", "r", "a", "m", "_">> \o stamp \o <<".",
                              "s", "v", "g", ")">>)>>,
   files |-> write(write(fs, mermaid_dir \o <<"/">> \o doc_name \o <<"_", "d", "i", "a", "g", "r",
       "a", "m", "_">> \o stamp
                               \o <<".", "s", "v", "g">>, image),
                   mermaid_dir \o <<"/">> \o doc_name \o <<"_">> \o stamp \o <<".", "m", "m", "d">>,
                   fence.code)]

\* The cache file written before the renderer is known to have succeeded.
RenderFresh_cache_first(ls, fence, fs, mermaid_dir, doc_name, cache_path, stamp, rendered) ==
  IF ~rendered.ok THEN NoEdit(write(fs, cache_path, rendered.out))
  ELSE SaveAndReplace(ls, fence, write(fs, cache_path, rendered.out), mermaid_dir, doc_name,
                      stamp, rendered.out)

\* The cache miss of create_render_edit: the rendered picture is saved to the
\* cache; no edit when rendering failed.
RenderFresh(ls, fence, fs, mermaid_dir, doc_name, cache_path, stamp, rendered) ==
  IF ~rendered.ok THEN NoEdit(fs)
  ELSE SaveAndReplace(ls, fence, write(fs, cache_path, rendered.out), mermaid_dir, doc_name,
                      stamp, rendered.out)

\* The cache check of create_render_edit.
RenderCached(ls, fence, fs, mermaid_dir, doc_name, cache_path, stamp, failing) ==
  IF is_file(fs, cache_path)
  THEN SaveAndReplace(ls, fence, fs, mermaid_dir, doc_name, stamp, fs[Resolve(cache_path)])
  ELSE RenderFresh(ls, fence, fs, mermaid_dir, doc_name, cache_path, stamp,
                   render_mermaid(fence.code, failing))

\* The cache file of a code in create_render_edit: named after code_hash of
\* the code alone.
cache_path(uri, code) ==
  doc_base_dir(uri).value \o <<"/", ".", "m", "e", "r", "m", "a", "i", "d", "/", ".", "c", "a",
      "c", "h", "e", "/", "m", "e", "r", "m", "a", "i", "d", "_">>
    \o WordToText(code_hash(code)) \o <<".", "s", "v", "g">>

\* Create a workspace edit that renders a single mermaid fence to SVG, at
\* local time now: [edits, files], edits empty for None.
create_render_edit(uri, ls, fence, fs, now, failing) ==
  IF ~doc_base_dir(uri).found THEN NoEdit(fs)
  ELSE RenderCached(ls, fence, fs, doc_base_dir(uri).value \o <<"/", ".", "m", "e", "r", "m", "a",
      "i", "d">>,
                    doc_short_name(uri), cache_path(uri, fence.code),
                    timestamp(now), failing)

\* The edits of one fence put after those of the fences before it.
EditsThen_document_order(edits, rest) ==
  [edits |-> rest.edits \o edits, files |-> rest.files]

\* The edits of one fence put before those of the fences before it.
EditsThen(edits, rest) == [edits |-> edits \o rest.edits, files |-> rest.files]

\* The loop of create_render_all_edit over fences[1..k] in reverse order, the
\* call for fences[k] being at local time times[Len(fences) - k + 1].
RECURSIVE RenderEach(_, _, _, _, _, _, _)
\* The loop giving up at the first fence without an edit.
RenderRest_stop_on_failure(uri, ls, fences, k, times, failing, r) ==
  IF r.edits = <<>> THEN NoEdit(r.files)
  ELSE EditsThen(r.edits, RenderEach(uri, ls, fences, k - 1, r.files, times, failing))

RenderRest(uri, ls, fences, k, times, failing, r) ==
  EditsThen(r.edits, RenderEach(uri, ls, fences, k - 1, r.files, times, failing))

RenderEach(uri, ls, fences, k, fs, times, failing) ==
  IF k = 0 THEN NoEdit(fs)
  ELSE RenderRest(uri, ls, fences, k, times, failing,
                  create_render_edit(uri, ls, fences[k], fs,
                                     times[Len(fences) - k + 1], failing))

\* Create a workspace edit that renders all mermaid fences.
create_render_all_edit(uri, ls, fs, times, failing) ==
  RenderEach(uri, ls, find_all_mermaid_fences(ls), Len(find_all_mermaid_fences(ls)),
             fs, times, failing)

\* Mutant of create_source_edit: a source file that cannot be read gives a
\* fence without content.
create_source_edit_best_effort(uri, ls, block, fs) ==
  LET base_dir == doc_base_dir(uri)
      mmd_path == PathJoin(base_dir.value, block.source_file)
      mermaid_code == read_to_string(fs, mmd_path)
      replacement == FENCE_OPEN \o <<"\n">> \o mermaid_code.value \o <<"\n">> \o FENCE
  IN IF ~base_dir.found THEN [edits |-> <<>>, read |-> {}]
     ELSE [edits |-> <<TextEdit(block.comment_line, block.end_line,
                                Len(ls[block.end_line + 1]), replacement)>>,
           read |-> {Resolve(mmd_path)}]

\* Create a workspace edit that restores a rendered block to its mermaid
\* source: [edits, read], read the files that were read into the edit.
create_source_edit(uri, ls, block, fs) ==
  LET base_dir == doc_base_dir(uri)
      mmd_path == PathJoin(base_dir.value, block.source_file)
      mermaid_code == read_to_string(fs, mmd_path)
      replacement == FENCE_OPEN \o <<"\n">> \o mermaid_code.value \o <<"\n">> \o FENCE
  IN IF ~base_dir.found \/ ~mermaid_code.found THEN [edits |-> <<>>, read |-> {}]
     ELSE [edits |-> <<TextEdit(block.comment_line, block.end_line,
                                Len(ls[block.end_line + 1]), replacement)>>,
           read |-> {Resolve(mmd_path)}]

\* Find a rendered block at the cursor position and create an edit to restore
\* source.
find_source_edit_at_cursor(uri, ls, cursor_line, fs) ==
  LET at == SelectSeq(find_all_rendered_blocks(ls),
                      LAMBDA rb : cursor_line >= rb.comment_line /\ cursor_line <= rb.end_line)
  IN IF at = <<>> THEN [edits |-> <<>>, read |-> {}]
     ELSE create_source_edit(uri, ls, at[1], fs)

\* The loop of create_edit_all_sources over blocks[1..k] in reverse order.
RECURSIVE RestoreEach(_, _, _, _, _)
RestoreEach(uri, ls, blocks, k, fs) ==
  IF k = 0 THEN [edits |-> <<>>, read |-> {}]
  ELSE LET r == create_source_edit(uri, ls, blocks[k], fs)
           rest == RestoreEach(uri, ls, blocks, k - 1, fs)
       IN [edits |-> r.edits \o rest.edits, read |-> r.read \cup rest.read]

\* Create a workspace edit that restores all rendered blocks to mermaid source.
create_edit_all_sources(uri, ls, fs) ==
  RestoreEach(uri, ls, find_all_rendered_blocks(ls), Len(find_all_rendered_blocks(ls)), fs)

\* A code action of the response: its title and the text edits of its edit,
\* with the files read into the edit and the fence it renders.
CodeAction(title, edits, read, fence) ==
  [title |-> title, edits |-> edits, read |-> read, fence |-> fence]

\* The response of handle_code_action: the actions that have an edit, in the
\* order they are pushed, and the files the request leaves.
Response(at, single, source, all, sources) ==
  [actions |->
     SelectSeq(<< CodeAction("Render Mermaid Diagram", single.edits, {}, at),
                  CodeAction("Edit Mermaid Source", source.edits, source.read, <<>>),
                  CodeAction("Render All Mermaid Diagrams", all.edits, {}, <<>>),
                  CodeAction("Edit All Mermaid Sources", sources.edits, sources.read, <<>>) >>,
               LAMBDA a : a.edits # <<>>),
   files |-> all.files]

\* handle_code_action after the bulk render edit: the bulk restore edit.
OfferSources(uri, ls, at, single, source, all) ==
  Response(at, single, source, all,
           IF \E i \in 1..Len(ls) : contains(ls[i], MARKER_PREFIX)
           THEN create_edit_all_sources(uri, ls, all.files)
           ELSE [edits |-> <<>>, read |-> {}])

\* handle_code_action after the render edit of the fence at the cursor: the
\* restore edit of the block at the cursor and the bulk render edit.
OfferRest(uri, ls, cursor_line, times, failing, at, single) ==
  OfferSources(uri, ls, at, single,
               find_source_edit_at_cursor(uri, ls, cursor_line, single.files),
               IF \E i \in 1..Len(ls) : StartsWithAt(trim_start(ls[i]), 1, FENCE_OPEN)
               THEN create_render_all_edit(uri, ls, single.files, Tail(times), failing)
               ELSE NoEdit(single.files))

\* handle_code_action once the fence at the cursor was looked for.
OfferRender(uri, ls, cursor_line, fs, times, failing, at) ==
  OfferRest(uri, ls, cursor_line, times, failing, at,
            IF at = <<>> THEN NoEdit(fs)
            ELSE create_render_edit(uri, ls, at[1], fs, times[1], failing))

\* handle_code_action: the actions of the response and the files it leaves,
\* [actions, files]; the k-th call of create_render_edit is at times[k].
handle_code_action(uri, doc, cursor_line, fs, times, failing) ==
  OfferRender(uri, lines(doc), cursor_line, fs, times, failing,
              find_mermaid_fence(lines(doc), cursor_line))

\* The index of the first character of line l (counted from 0) of a text, as
\* the host counts lines; the end of the text for a line beyond it.
LineStart(doc, l) ==
  LET feeds == {i \in 1..Len(doc) : doc[i] = "\n"}
      before == {i \in feeds : Cardinality({j \in feeds : j < i}) = l - 1}
  IN IF l = 0 THEN 1
     ELSE IF before = {} THEN Len(doc) + 1
     ELSE Least(before) + 1

\* The host applying the text edits of a workspace edit in the order given.
RECURSIVE ApplyEdits(_, _)
ApplyEdits(doc, edits) ==
  IF edits = <<>> THEN doc
  ELSE LET ed == Head(edits)
           from == LineStart(doc, ed.start_line) + ed.start_char
           to == LineStart(doc, ed.end_line) + ed.end_char
       IN ApplyEdits(SubSeq(doc, 1, from - 1) \o ed.new_text \o SubSeq(doc, to, Len(doc)),
                     Tail(edits))

(***************************************************************************)
(* The language server: the host opens, changes and closes documents and   *)
(* asks for code actions; the server answers from its copy of the text.    *)
(***************************************************************************)
MaxClock == 1
MaxRequests == 2

DOC_URI == <<"f", "i", "l", "e", ":", "/", "/", "/", "w", "/", "d", ".", "m", "d">>
URIS == {DOC_URI}

\* The texts the host opens a document with.
DOCS ==
  { <<"grave", "grave", "grave", "m", "e", "r", "m", "a", "i", "d", "\n", "p", "i", "e", "\n",
      "grave", "grave", "grave", "\n", "\n", "grave", "grave", "grave", "m", "e", "r", "m", "a",
          "i", "d", "\n", "g", "a", "n", "t", "t", "\n", "grave", "grave", "grave", "\n">>,
    <<"#", " ", "T", "\r", "\n", "grave", "grave", "grave", "m", "e", "r", "m", "a", "i", "d",
        "\r", "\n", "p", "i", "e", "\r", "\n", "grave", "grave", "grave", "\r", "\n">>,
    <<"<", "!", "-", "-", " ", "m", "e", "r", "m", "a", "i", "d", "-", "s", "o", "u", "r", "c",
        "e", "-", "f", "i", "l", "e", ":", ".", ".", "/", "s", ".", "m", "m", "d", " ", "-", "-",
            ">", "\n">>,
    <<"<", "!", "-", "-", " ", "m", "e", "r", "m", "a", "i", "d", "-", "s", "o", "u", "r", "c",
        "e", "-", "f", "i", "l", "e", ":", "/", "s", ".", "m", "m", "d", " ", "-", "-", ">", "\n",
            "\n", "!", "[", "d", "]", "(", ".", "m", "e", "r", "m", "a", "i", "d", "/", "x", ".",
                "s", "v", "g", ")", "\n">>,
    <<"grave", "grave", "grave", "m", "e", "r", "m", "a", "i", "d", "\n", "A", "-", "-", ">", "B",
        "\n", "grave", "grave", "grave", "\n">> }

\* A file outside the directory of the document.
OUTSIDE_PATH == <<"/", "s", ".", "m", "m", "d">>

\* The values of CARGO_PKG_VERSION of the builds of the server.
PKG_VERSIONS == <<<<"0", ".", "1", ".", "0">>, <<"0", ".", "2", ".", "0">>>>

NoRoundTrip == [stage |-> "none", line |-> 0, code |-> <<>>]

DocInit ==
  /\ documents = [u \in {} |-> <<>>]
  /\ files = [p \in {OUTSIDE_PATH} |-> <<"s", "e", "c", "r", "e", "t">>]
  /\ clock = 0
  /\ offers = <<>>
  /\ nreq = 0
  /\ roundTrip = NoRoundTrip
  /\ pkgVersion = PKG_VERSIONS[1]
  /\ cacheTag = [p \in {} |-> <<>>]
  /\ served = {}

\* textDocument/didOpen: the server stores the text.
DidOpen(uri, text) ==
  /\ documents' = [u \in DOMAIN documents \cup {uri} |-> IF u = uri THEN text ELSE documents[u]]
  /\ offers' = <<>>
  /\ roundTrip' = NoRoundTrip
  /\ UNCHANGED <<files, clock, nreq, pkgVersion, cacheTag, served, sanVars, cacheVars, valVars, scanVars, hashVars, cmdVars, storeVars, loopVars, mmdcVars, reqVars, raceVars>>

\* textDocument/didChange after the host applied the k-th code action it was
\* offered: the server stores the new full text.
DidChange(uri, k) ==
  /\ uri \in DOMAIN documents
  /\ k \in DOMAIN offers
  /\ documents' = [documents EXCEPT ![uri] = ApplyEdits(documents[uri], offers[k].edits)]
  /\ roundTrip' =
       IF offers[k].title = "Render Mermaid Diagram"
       THEN [stage |-> "rendered", line |-> offers[k].fence[1].start_line,
             code |-> offers[k].fence[1].code]
       ELSE IF /\ offers[k].title = "Edit Mermaid Source"
               /\ roundTrip.stage = "offered"
               /\ offers[k].edits[1].start_line = roundTrip.line
            THEN [roundTrip EXCEPT !.stage = "restored"]
            ELSE NoRoundTrip
  /\ offers' = <<>>
  /\ UNCHANGED <<files, clock, nreq, pkgVersion, cacheTag, served, sanVars, cacheVars, valVars, scanVars, hashVars, cmdVars, storeVars, loopVars, mmdcVars, reqVars, raceVars>>

\* textDocument/didClose: the server forgets the text.
DidClose(uri) ==
  /\ uri \in DOMAIN documents
  /\ documents' = [u \in DOMAIN documents \ {uri} |-> documents[u]]
  /\ offers' = <<>>
  /\ roundTrip' = NoRoundTrip
  /\ UNCHANGED <<files, clock, nreq, pkgVersion, cacheTag, served, sanVars, cacheVars, valVars, scanVars, hashVars, cmdVars, storeVars, loopVars, mmdcVars, reqVars, raceVars>>

\* The local time of each call of create_render_edit of one request: the clock
\* moves on by one second before the calls in ticks.
TimesOf(ticks) ==
  [k \in DOMAIN ticks |-> clock + Cardinality({j \in 1..k : ticks[j]})]

\* The codes of the fences of a text.
CodesOf(doc) ==
  {find_all_mermaid_fences(lines(doc))[i].code :
     i \in 1..Len(find_all_mermaid_fences(lines(doc)))}

\* The cache files a request finds: create_render_all_edit looks up the cache
\* file of every fence of the text.
CacheHits(uri, doc, fs) ==
  {Resolve(cache_path(uri, c)) : c \in CodesOf(doc)} \cap DOMAIN fs

\* textDocument/codeAction for an open document.
CodeActionRequest(uri, cursor_line, ticks, failing) ==
  /\ uri \in DOMAIN documents
  /\ nreq < MaxRequests
  /\ TimesOf(ticks)[Len(ticks)] <= MaxClock
  /\ \E r \in {handle_code_action(uri, documents[uri], cursor_line, files,
                                   TimesOf(ticks), failing)} :
       /\ offers' = r.actions
       /\ files' = r.files
  /\ clock' = TimesOf(ticks)[Len(ticks)]
  /\ nreq' = nreq + 1
  /\ roundTrip' =
       IF roundTrip.stage = "rendered" /\ cursor_line = roundTrip.line
       THEN [roundTrip EXCEPT !.stage = "offered"]
       ELSE NoRoundTrip
  /\ served' = {cacheTag[p] : p \in CacheHits(uri, documents[uri], files)}
  /\ cacheTag' = [p \in {q \in DOMAIN files' : contains(q, <<"/", ".", "m", "e", "r", "m", "a",
      "i", "d", "/", ".", "c", "a", "c", "h", "e", "/">>)} |->
                    IF p \in DOMAIN cacheTag THEN cacheTag[p] ELSE pkgVersion]
  /\ UNCHANGED <<documents, pkgVersion, sanVars, cacheVars, valVars, scanVars, hashVars, cmdVars, storeVars, loopVars, mmdcVars, reqVars, raceVars>>

\* The host shuts the server down after some request and starts the build of
\* the next version v: main_loop begins with no documents; the files stay on
\* disk.
Restart(v) ==
  /\ nreq > 0
  /\ \E i \in 1..(Len(PKG_VERSIONS) - 1) : pkgVersion = PKG_VERSIONS[i] /\ v = PKG_VERSIONS[i + 1]
  /\ pkgVersion' = v
  /\ documents' = [u \in {} |-> <<>>]
  /\ offers' = <<>>
  /\ roundTrip' = NoRoundTrip
  /\ served' = {}
  /\ UNCHANGED <<files, clock, nreq, cacheTag, sanVars, cacheVars, valVars, scanVars, hashVars, cmdVars, storeVars, loopVars, mmdcVars, reqVars, raceVars>>

\* C2: every file read into a restore edit lies in the directory of the
\* document: no code action that was offered read a file outside of it.
C2_RestoreReadsInsideBase ==
  \A u \in DOMAIN documents : \A k \in DOMAIN offers : \A p \in offers[k].read :
    StartsWithAt(p, 1, doc_base_dir(u).value \o <<"/">>)

\* C3: after the host applied the render edit of a fence and then at once the
\* restore edit of the block it left, the scanner finds a fence on the same
\* line with the same code.
C3_RoundTrip ==
  roundTrip.stage = "restored" =>
    \A u \in DOMAIN documents :
      \E i \in 1..Len(find_all_mermaid_fences(lines(documents[u]))) :
        /\ find_all_mermaid_fences(lines(documents[u]))[i].start_line = roundTrip.line
        /\ find_all_mermaid_fences(lines(documents[u]))[i].code = roundTrip.code

\* The image reference of a replacement text: the text from the image mark on.
ImageReference(new_text) ==
  SubSeq(new_text, FindStr(new_text, 1, <<"!", "[", "M", "e", "r", "m", "a", "i", "d", " ", "D",
      "i", "a", "g", "r", "a", "m", "]", "(">>), Len(new_text))

\* C17: when one request renders the fence at the cursor and then renders it
\* again among all fences, the two replacement texts hold the same image
\* reference.
C17_SameImageReference ==
  \A k \in DOMAIN offers : \A j \in DOMAIN offers :
    ( /\ offers[k].title = "Render Mermaid Diagram"
      /\ offers[j].title = "Render All Mermaid Diagrams" ) =>
      \A e \in DOMAIN offers[j].edits :
        offers[j].edits[e].start_line = offers[k].fence[1].start_line =>
          ImageReference(offers[j].edits[e].new_text)
            = ImageReference(offers[k].edits[1].new_text)

\* C18: a cache file that a request finds was written by a build of the
\* running version.
C18_CacheKeyHasVersion ==
  \A v \in served : v = pkgVersion

\* C38: answering a textDocument/codeAction request only lists the actions:
\* the request leaves the document store and the files of the cache directory
\* and of the asset directory as they were, and no response holds two edits
\* for which the same fence was resolved (the edit of the fence at the cursor
\* and an edit for the same fence among all fences).
C38_CodeActionOnlyLists ==
  /\ [][nreq' = nreq + 1 => documents' = documents /\ files' = files]_vars
  /\ [](\A k \in DOMAIN offers : \A j \in DOMAIN offers :
          ~ /\ offers[k].title = "Render Mermaid Diagram"
            /\ offers[j].title = "Render All Mermaid Diagrams"
            /\ \E e \in DOMAIN offers[j].edits :
                 offers[j].edits[e].start_line = offers[k].fence[1].start_line)

(***************************************************************************)
(* The fence scanner on its own: find_all_mermaid_fences applied to line   *)
(* sequences assembled from a few kinds of lines.                          *)
(***************************************************************************)
MaxScanLines == 4

\* The kinds of lines: opening fences, closing fences (bare, indented with a
\* carriage return, followed by a blank), a fence of four grave accents, a
\* line of text, and the lines of a rendered block: the marker comment, a
\* blank line and the image reference.
SCAN_LINES ==
  { <<"grave", "grave", "grave", "m", "e", "r", "m", "a", "i", "d">>, <<" ", " ", "grave",
      "grave", "grave", "m", "e", "r", "m", "a", "i", "d">>, <<"grave", "grave", "grave">>, <<" ",
          "grave", "grave", "grave", "\r">>, <<"grave", "grave", "grave", " ">>, <<"grave",
              "grave", "grave", "grave", "m", "e", "r", "m", "a", "i", "d">>, <<"A", " ", "-",
                  "-", ">", " ", "B">>,
    <<"<", "!", "-", "-", " ", "m", "e", "r", "m", "a", "i", "d", "-", "s", "o", "u", "r", "c",
        "e", "-", "f", "i", "l", "e", ":", ".", "m", "e", "r", "m", "a", "i", "d", "/", "s", ".",
            "m", "m", "d", " ", "-", "-", ">">>, <<>>, <<"!", "[", "M", "e", "r", "m", "a", "i",
                "d", " ", "D", "i", "a", "g", "r", "a", "m", "]", "(", ".", "m", "e", "r", "m",
                    "a", "i", "d", "/", "s", ".", "s", "v", "g", ")">> }

\* The files of the lookup: the source file the marker comment names.
SCAN_FILES == [p \in {<<"/", "w", "/", ".", "m", "e", "r", "m", "a", "i", "d", "/", "s", ".", "m",
    "m", "d">>} |-> <<"p", "i", "e">>]

ScanInit ==
  /\ scanLines = <<>>
  /\ scanPc = "build"
  /\ scanFences = <<>>
  /\ scanBlocks = <<>>
  /\ scanCursor = 0
  /\ scanAt = <<>>
  /\ scanSource = <<>>

\* One more line is put at the end of the lines.
ScanAppend(line) ==
  /\ scanPc = "build"
  /\ Len(scanLines) < MaxScanLines
  /\ scanLines' = Append(scanLines, line)
  /\ UNCHANGED <<scanPc, scanFences, scanBlocks, scanCursor, scanAt, scanSource>>
  /\ UNCHANGED <<sanVars, cacheVars, docVars, valVars, hashVars, cmdVars, storeVars, loopVars, mmdcVars, reqVars, raceVars>>

\* The calls find_all_mermaid_fences(&lines) and find_all_rendered_blocks(&lines).
ScanFind ==
  /\ scanPc = "build"
  /\ scanFences' = find_all_mermaid_fences(scanLines)
  /\ scanBlocks' = find_all_rendered_blocks(scanLines)
  /\ scanPc' = "done"
  /\ UNCHANGED <<scanLines, scanCursor, scanAt, scanSource>>
  /\ UNCHANGED <<sanVars, cacheVars, docVars, valVars, hashVars, cmdVars, storeVars, loopVars, mmdcVars, reqVars, raceVars>>

\* The lookups at a cursor line: find_mermaid_fence and
\* find_source_edit_at_cursor.
ScanLookup(cursor_line) ==
  /\ scanPc = "done"
  /\ scanCursor' = cursor_line
  /\ scanAt' = find_mermaid_fence(scanLines, cursor_line)
  /\ scanSource' = find_source_edit_at_cursor(DOC_URI, scanLines, cursor_line, SCAN_FILES).edits
  /\ scanPc' = "looked"
  /\ UNCHANGED <<scanLines, scanFences, scanBlocks>>
  /\ UNCHANGED <<sanVars, cacheVars, docVars, valVars, hashVars, cmdVars, storeVars, loopVars, mmdcVars, reqVars, raceVars>>

FencesAtCursor ==
  {k \in DOMAIN scanFences :
     scanFences[k].start_line <= scanCursor /\ scanCursor <= scanFences[k].end_line}
BlocksAtCursor ==
  {k \in DOMAIN scanBlocks :
     scanBlocks[k].comment_line <= scanCursor /\ scanCursor <= scanBlocks[k].end_line}

\* C21: the lookup of a fence at a cursor line finds a fence exactly when some
\* scanned fence has start_line <= cursor <= end_line, and then the first such
\* fence; the lookup of a rendered block (the source file being readable)
\* gives an edit exactly when some block has comment_line <= cursor <=
\* end_line, and then the edit of the first such block.
C21_CursorInclusive ==
  scanPc = "looked" =>
    /\ (scanAt = <<>>) <=> (FencesAtCursor = {})
    /\ FencesAtCursor # {} => scanAt[1] = scanFences[Least(FencesAtCursor)]
    /\ (scanSource = <<>>) <=> (BlocksAtCursor = {})
    /\ BlocksAtCursor # {} =>
         /\ scanSource[1].start_line = scanBlocks[Least(BlocksAtCursor)].comment_line
         /\ scanSource[1].end_line = scanBlocks[Least(BlocksAtCursor)].end_line

\* The cursor was on the closing line of a fence and the fence was found.
C21_Witness ==
  /\ scanPc = "looked"
  /\ scanAt # <<>>
  /\ scanAt[1].end_line = scanCursor

\* C30: a line after the opening line of a reported fence whose content
\* without the white space around it is the bare fence does not lie inside the
\* fence: the fence ends on the first such line.
C30_TrimmedFenceCloses ==
  scanPc # "build" =>
    \A k \in DOMAIN scanFences :
      \A j \in (scanFences[k].start_line + 1)..(scanFences[k].end_line - 1) :
        trim(scanLines[j + 1]) # FENCE

\* The opening lines that have no closing-fence line after them.
UnclosedOpenings ==
  {i \in 0..(Len(scanLines) - 1) :
     /\ IsFenceOpen(scanLines[i + 1])
     /\ \A j \in (i + 1)..(Len(scanLines) - 1) : ~IsFenceClose(scanLines[j + 1])}

NonBlankAfter(i) ==
  {j \in (i + 1)..(Len(scanLines) - 1) : trim(scanLines[j + 1]) # <<>>}

\* An image reference: the line without the white space around it starts with
\* "![" and holds "(.mermaid/".
IsImageReference(line) ==
  StartsWithAt(trim(line), 1, <<"!", "[">>) /\ contains(trim(line), <<"(", ".", "m", "e", "r",
      "m", "a", "i", "d", "/">>)

MarkerLines ==
  {i \in 0..(Len(scanLines) - 1) : extract_source_file_path(scanLines[i + 1]).found}

\* C33: the reported rendered blocks are in document order and do not overlap,
\* and every marker-comment line of the document is the comment_line of
\* exactly one reported block.
C33_BlocksOrderedAndComplete ==
  scanPc # "build" =>
    /\ \A k \in DOMAIN scanBlocks : scanBlocks[k].comment_line <= scanBlocks[k].end_line
    /\ \A k \in 1..(Len(scanBlocks) - 1) :
         scanBlocks[k].end_line < scanBlocks[k + 1].comment_line
    /\ {scanBlocks[k].comment_line : k \in DOMAIN scanBlocks} = MarkerLines
    /\ Len(scanBlocks) = Cardinality(MarkerLines)

\* Two blocks were reported, the second beginning right after the image
\* reference of the first.
C33_Witness ==
  /\ scanPc # "build"
  /\ Len(scanBlocks) = 2
  /\ scanBlocks[1].end_line > scanBlocks[1].comment_line
  /\ scanBlocks[2].comment_line = scanBlocks[1].end_line + 1

(***************************************************************************)
(* workspace/executeCommand: the server computes the edit of a command,    *)
(* asks the host to apply it with workspace/applyEdit, and the host sends  *)
(* the new text back.                                                      *)
(***************************************************************************)
COMMANDS ==
  { "mermaid.renderSingle", "mermaid.renderAllLightweight",
    "mermaid.editSingleSource", "mermaid.editAllSources" }

\* The texts the host opens a document with before it sends commands.
CMD_DOCS ==
  { <<"grave", "grave", "grave", "m", "e", "r", "m", "a", "i", "d", "\n", "p", "i", "e", "\n",
      "grave", "grave", "grave", "\n", "\n", "grave", "grave", "grave", "m", "e", "r", "m", "a",
          "i", "d", "\n", "g", "a", "n", "t", "t", "\n", "grave", "grave", "grave", "\n">>,
    <<"grave", "grave", "grave", "m", "e", "r", "m", "a", "i", "d", "\n", "p", "i", "e", "\n",
        "grave", "grave", "grave", "\n", "grave", "grave", "grave", "m", "e", "r", "m", "a", "i",
            "d", "\n", "<", "s", "c", "r", "i", "p", "t", ">", "\n", "grave", "grave", "grave",
                "\n", "grave", "grave", "grave", "m", "e", "r", "m", "a", "i", "d", "\n", "g",
                    "a", "n", "t", "t", "\n", "grave", "grave", "grave", "\n">>,
    <<"<", "!", "-", "-", " ", "m", "e", "r", "m", "a", "i", "d", "-", "s", "o", "u", "r", "c",
        "e", "-", "f", "i", "l", "e", ":", ".", "m", "e", "r", "m", "a", "i", "d", "/", "a", ".",
            "m", "m", "d", " ", "-", "-", ">", "\n", "\n", "!", "[", "M", "e", "r", "m", "a", "i",
                "d", " ", "D", "i", "a", "g", "r", "a", "m", "]", "(", ".", "m", "e", "r", "m",
                    "a", "i", "d", "/", "a", ".", "s", "v", "g", ")", "\n", "\n", "<", "!", "-",
                        "-", " ", "m", "e", "r", "m", "a", "i", "d", "-", "s", "o", "u", "r", "c",
                            "e", "-", "f", "i", "l", "e", ":", ".", "m", "e", "r", "m", "a", "i",
                                "d", "/", "g", "o", "n", "e", ".", "m", "m", "d", " ", "-", "-",
                                    ">", "\n", "\n", "!", "[", "M", "e", "r", "m", "a", "i", "d",
                                        " ", "D", "i", "a", "g", "r", "a", "m", "]", "(", ".",
                                            "m", "e", "r", "m", "a", "i", "d", "/", "b", ".", "s",
                                                "v", "g", ")", "\n", "\n", "<", "!", "-", "-",
                                                    " ", "m", "e", "r", "m", "a", "i", "d", "-",
                                                        "s", "o", "u", "r", "c", "e", "-", "f",
                                                            "i", "l", "e", ":", ".", "m", "e",
                                                                "r", "m", "a", "i", "d", "/", "a",
                                                                    ".", "m", "m", "d", " ", "-",
                                                                        "-", ">", "\n", "\n", "!",
                                                                            "[", "M", "e", "r",
                                                                                "m", "a", "i",
                                                                                    "d", " ", "D",
                                                                                        "i", "a",
                                                                                            "g",
                                                                                                "r", "a", "m", "]", "(", ".", "m", "e", "r", "m", "a", "i", "d", "/", "a", ".", "s", "v", "g", ")", "\n">>,
    <<"#", " ", "T", "\n">> }

\* The files next to the document when the server starts.
CMD_FILES == [p \in {<<"/", "w", "/", ".", "m", "e", "r", "m", "a", "i", "d", "/", "a", ".", "m",
    "m", "d">>} |-> <<"p", "i", "e">>]

NoCommand ==
  [command |-> "none", uri |-> <<>>, text |-> <<>>, before |-> [p \in {} |-> <<>>],
   failing |-> {}, edits |-> <<>>]

NoTrip == [stage |-> "none", codes |-> <<>>, text |-> <<>>]

CmdInit ==
  /\ applyEdit = <<>>
  /\ cmd = NoCommand
  /\ cmdTrip = NoTrip

CmdDocInit ==
  /\ documents = [u \in {} |-> <<>>]
  /\ files = CMD_FILES
  /\ clock = 0
  /\ offers = <<>>
  /\ nreq = 0
  /\ roundTrip = NoRoundTrip
  /\ pkgVersion = PKG_VERSIONS[1]
  /\ cacheTag = [p \in {} |-> <<>>]
  /\ served = {}

\* The codes of the fences of a text, in the order of the text.
FenceCodes(doc) ==
  [i \in 1..Len(find_all_mermaid_fences(lines(doc))) |->
     find_all_mermaid_fences(lines(doc))[i].code]

\* The arm of mermaid.renderSingle and mermaid.renderAllLightweight.
ExecuteRender(command, uri, ls, fs, times, failing) ==
  IF command = "mermaid.renderAllLightweight"
  THEN create_render_all_edit(uri, ls, fs, times, failing)
  ELSE IF find_all_mermaid_fences(ls) = <<>> THEN NoEdit(fs)
  ELSE create_render_edit(uri, ls, find_all_mermaid_fences(ls)[1], fs, times[1], failing)

\* The arm of mermaid.editSingleSource and mermaid.editAllSources.
ExecuteEdit(command, uri, ls, fs) ==
  IF command = "mermaid.editAllSources"
  THEN [edits |-> create_edit_all_sources(uri, ls, fs).edits, files |-> fs]
  ELSE IF find_all_rendered_blocks(ls) = <<>> THEN NoEdit(fs)
  ELSE [edits |-> create_source_edit(uri, ls, find_all_rendered_blocks(ls)[1], fs).edits,
        files |-> fs]

\* handle_execute_command: [edits, files], edits being what apply_edit sends,
\* empty when nothing is sent.
handle_execute_command(command, uri, docs, fs, times, failing) ==
  IF uri \notin DOMAIN docs THEN NoEdit(fs)
  ELSE IF command \in {"mermaid.renderSingle", "mermaid.renderAllLightweight"}
  THEN ExecuteRender(command, uri, lines(docs[uri]), fs, times, failing)
  ELSE IF command \in {"mermaid.editSingleSource", "mermaid.editAllSources"}
  THEN ExecuteEdit(command, uri, lines(docs[uri]), fs)
  ELSE NoEdit(fs)

\* The text of a document of the store, empty when the store has none.
TextOf(uri) == IF uri \in DOMAIN documents THEN documents[uri] ELSE <<>>

\* The number of local times a render command may read: one for each fence,
\* one at least.
RenderCalls(doc) == IF FenceCodes(doc) = <<>> THEN 1 ELSE Len(FenceCodes(doc))

\* workspace/executeCommand, the renderer failing for the codes in failing.
ExecuteCommand(command, uri, ticks, failing) ==
  /\ applyEdit = <<>>
  /\ nreq < MaxRequests
  /\ TimesOf(ticks)[Len(ticks)] <= MaxClock
  /\ \E r \in {handle_execute_command(command, uri, documents, files,
                                       TimesOf(ticks), failing)} :
       /\ applyEdit' = r.edits
       /\ files' = r.files
       /\ cmd' = [command |-> command, uri |-> uri, text |-> TextOf(uri), before |-> files,
                  failing |-> failing, edits |-> r.edits]
  /\ clock' = TimesOf(ticks)[Len(ticks)]
  /\ nreq' = nreq + 1
  /\ cmdTrip' =
       IF command = "mermaid.renderAllLightweight"
       THEN [stage |-> "rendering", codes |-> FenceCodes(TextOf(uri)), text |-> <<>>]
       ELSE IF /\ command = "mermaid.editAllSources"
               /\ cmdTrip.stage = "rendered"
               /\ TextOf(uri) = cmdTrip.text
            THEN [cmdTrip EXCEPT !.stage = "restoring"]
            ELSE NoTrip
  /\ UNCHANGED <<documents, offers, roundTrip, pkgVersion, cacheTag, served, sanVars, cacheVars, valVars, scanVars, hashVars, storeVars, loopVars, mmdcVars, reqVars, raceVars>>

\* The host applies the edits of workspace/applyEdit to its text and sends
\* textDocument/didChange with the new full text, which the server stores.
HostApplyEdit ==
  /\ applyEdit # <<>>
  /\ cmd.uri \in DOMAIN documents
  /\ \E text \in {ApplyEdits(documents[cmd.uri], applyEdit)} :
       /\ documents' = [documents EXCEPT ![cmd.uri] = text]
       /\ cmdTrip' =
            IF cmdTrip.stage = "rendering"
            THEN [cmdTrip EXCEPT !.stage = "rendered", !.text = text]
            ELSE IF cmdTrip.stage = "restoring"
            THEN [cmdTrip EXCEPT !.stage = "restored", !.text = text]
            ELSE NoTrip
  /\ applyEdit' = <<>>
  /\ UNCHANGED <<cmd, files, clock, offers, nreq, roundTrip, pkgVersion, cacheTag, served, sanVars, cacheVars, valVars, scanVars, hashVars, storeVars, loopVars, mmdcVars, reqVars, raceVars>>

\* C22: the edit list of a bulk render-all or restore-all is in strictly
\* decreasing order of start line and its ranges are pairwise disjoint: each
\* edit's range ends before the start line of the edit that precedes it.
C22_BulkEditsDescending ==
  cmd.command \in {"mermaid.renderAllLightweight", "mermaid.editAllSources"} =>
    /\ \A i \in DOMAIN cmd.edits : cmd.edits[i].start_line <= cmd.edits[i].end_line
    /\ \A i, j \in DOMAIN cmd.edits :
         i < j => cmd.edits[j].end_line < cmd.edits[i].start_line

C22_Witness ==
  /\ cmd.command = "mermaid.renderAllLightweight"
  /\ Len(cmd.edits) >= 2

\* Whether create_render_edit has something to put in place of a fence with
\* this code: a cache file, or an output of the renderer that the sanitizer
\* accepts.
RenderResolves(uri, code, fs, failing) ==
  \/ is_file(fs, cache_path(uri, code))
  \/ render_mermaid(code, failing).ok

\* Whether create_source_edit can read the source file a block names.
SourceResolves(uri, block, fs) ==
  read_to_string(fs, PathJoin(doc_base_dir(uri).value, block.source_file)).found

\* The start lines of the regions of the text of the last command that
\* resolve.
ResolvedLines ==
  IF cmd.command = "mermaid.renderAllLightweight"
  THEN {f.start_line : f \in {g \in Range(find_all_mermaid_fences(lines(cmd.text))) :
                                RenderResolves(cmd.uri, g.code, cmd.before, cmd.failing)}}
  ELSE {b.comment_line : b \in {c \in Range(find_all_rendered_blocks(lines(cmd.text))) :
                                  SourceResolves(cmd.uri, c, cmd.before)}}

\* C23: a bulk render-all or restore-all holds exactly one edit for each region
\* that resolved and none for the others; when no region resolves or none
\* exists nothing is sent.
C23_BulkOmitsUnresolved ==
  cmd.command \in {"mermaid.renderAllLightweight", "mermaid.editAllSources"} =>
    /\ {cmd.edits[i].start_line : i \in DOMAIN cmd.edits} = ResolvedLines
    /\ Len(cmd.edits) = Cardinality(ResolvedLines)

C23_Witness ==
  /\ cmd.command = "mermaid.renderAllLightweight"
  /\ Len(cmd.edits) = 2
  /\ Len(find_all_mermaid_fences(lines(cmd.text))) = 3
  /\ cmd.edits[1].start_line = 6
  /\ cmd.edits[2].start_line = 0

\* The fences of the text of the last render command that did not resolve.
FailedFences ==
  {f \in Range(find_all_mermaid_fences(lines(cmd.text))) :
     ~RenderResolves(cmd.uri, f.code, cmd.before, cmd.failing)}

\* The fences the last render command called create_render_edit for.
TriedFences ==
  IF cmd.command = "mermaid.renderAllLightweight"
  THEN Range(find_all_mermaid_fences(lines(cmd.text)))
  ELSE {find_all_mermaid_fences(lines(cmd.text))[i] :
          i \in {1} \cap DOMAIN find_all_mermaid_fences(lines(cmd.text))}

\* The files a command wrote or changed.
Written == {p \in DOMAIN files : p \notin DOMAIN cmd.before \/ files[p] # cmd.before[p]}

C29_BulkRoundTrip ==
  /\ cmdTrip.stage = "restored"
  /\ cmd.uri \in DOMAIN documents
  /\ documents[cmd.uri] = cmdTrip.text
  /\ Len(cmdTrip.codes) >= 2
  /\ \A i, j \in DOMAIN cmdTrip.codes : i # j => cmdTrip.codes[i] # cmdTrip.codes[j]
  => FenceCodes(documents[cmd.uri]) = cmdTrip.codes

\* The rendered blocks the last restore command called create_source_edit for.
TriedBlocks ==
  IF cmd.command = "mermaid.editAllSources"
  THEN Range(find_all_rendered_blocks(lines(cmd.text)))
  ELSE {find_all_rendered_blocks(lines(cmd.text))[i] :
          i \in {1} \cap DOMAIN find_all_rendered_blocks(lines(cmd.text))}

\* The edits of the last command that begin on a line.
EditsAt(line) == {i \in DOMAIN cmd.edits : cmd.edits[i].start_line = line}

\* The edit that puts the content of the source file of a block, between the
\* fence delimiters, in place of the block.
RestoreOf(b) ==
  [start_line |-> b.comment_line, start_char |-> 0, end_line |-> b.end_line,
   end_char |-> Len(lines(cmd.text)[b.end_line + 1]),
   new_text |-> FENCE_OPEN \o <<"\n">>
                  \o cmd.before[Resolve(PathJoin(doc_base_dir(cmd.uri).value, b.source_file))]
                  \o <<"\n">> \o FENCE]

\* C34: restoring a rendered block gives no edit when the source file its
\* marker comment names cannot be read, and when it can be read exactly one
\* edit, from column 0 of the comment line to the end of the end line, that
\* wraps the content of the file in the fence delimiters.
C34_RestoreAllOrNothing ==
  cmd.command \in {"mermaid.editSingleSource", "mermaid.editAllSources"} =>
    /\ \A b \in TriedBlocks :
         IF SourceResolves(cmd.uri, b, cmd.before)
         THEN /\ Cardinality(EditsAt(b.comment_line)) = 1
              /\ \A i \in EditsAt(b.comment_line) : cmd.edits[i] = RestoreOf(b)
         ELSE EditsAt(b.comment_line) = {}
    /\ \A i \in DOMAIN cmd.edits : \E b \in TriedBlocks : cmd.edits[i].start_line = b.comment_line

\* A restore-all met a block whose source file is missing and blocks whose
\* source file was read.
C34_Witness ==
  /\ cmd.command = "mermaid.editAllSources"
  /\ \E b \in TriedBlocks : ~SourceResolves(cmd.uri, b, cmd.before)
  /\ Len(cmd.edits) = 2

(***************************************************************************)
(* The document store under the notifications of the host.                 *)
(***************************************************************************)
MaxChanges == 2

OTHER_URI == <<"f", "i", "l", "e", ":", "/", "/", "/", "w", "/", "e", ".", "m", "d">>
THIRD_URI == <<"f", "i", "l", "e", ":", "/", "/", "/", "v", "/", "d", ".", "m", "d">>
STORE_URIS == {DOC_URI, OTHER_URI, THIRD_URI}
STORE_TEXTS == {<<"#", " ", "A", "\n">>, <<"#", " ", "B", "\n">>, <<>>}

\* The notifications of the host: didOpen carries the text, didChange a list
\* of content changes, each the full text after the change (the server asks
\* for TextDocumentSyncKind::FULL).
NOTIFICATIONS ==
  [method : {"textDocument/didOpen"}, uri : STORE_URIS, text : STORE_TEXTS,
   content_changes : {<<>>}]
  \cup [method : {"textDocument/didChange"}, uri : STORE_URIS, text : {<<>>},
        content_changes : UNION {[1..n -> STORE_TEXTS] : n \in 0..MaxChanges}]
  \cup [method : {"textDocument/didClose", "textDocument/didSave"}, uri : STORE_URIS,
        text : {<<>>}, content_changes : {<<>>}]

\* HashMap::insert.
insert(docs, uri, text) ==
  [u \in DOMAIN docs \cup {uri} |-> IF u = uri THEN text ELSE docs[u]]

\* HashMap::remove.
remove(docs, uri) == [u \in DOMAIN docs \ {uri} |-> docs[u]]

\* handle_notification: the documents after the notification.
handle_notification(not, docs) ==
  IF not.method = "textDocument/didOpen" THEN insert(docs, not.uri, not.text)
  ELSE IF not.method = "textDocument/didChange"
  THEN IF not.content_changes # <<>> THEN insert(docs, not.uri, not.content_changes[1])
       ELSE docs
  ELSE IF not.method = "textDocument/didClose" THEN remove(docs, not.uri)
  ELSE docs

\* What a notification tells about its document: the text of the document
\* after it, that the document is closed, or nothing new.
Told(not, before) ==
  IF not.method = "textDocument/didOpen" THEN [kind |-> "text", text |-> not.text]
  ELSE IF not.method = "textDocument/didChange" /\ not.content_changes # <<>>
  THEN [kind |-> "text", text |-> not.content_changes[Len(not.content_changes)]]
  ELSE IF not.method = "textDocument/didClose" THEN [kind |-> "closed", text |-> <<>>]
  ELSE before

StoreInit == notified = [u \in STORE_URIS |-> [kind |-> "closed", text |-> <<>>]]

\* main_loop taking a notification off the connection.
Notification(not) ==
  /\ documents' = handle_notification(not, documents)
  /\ notified' = [notified EXCEPT ![not.uri] = Told(not, notified[not.uri])]
  /\ offers' = <<>>
  /\ roundTrip' = NoRoundTrip
  /\ UNCHANGED <<files, clock, nreq, pkgVersion, cacheTag, served, sanVars, cacheVars, valVars, scanVars, hashVars, cmdVars, loopVars, mmdcVars, reqVars, raceVars>>

\* C25: the document store maps each document to exactly the full text of the
\* most recent open or change notification for it and holds no entry for a
\* document whose most recent notification was a close.
C25_StoreHoldsLatestText ==
  \A u \in STORE_URIS :
    /\ notified[u].kind = "text" => u \in DOMAIN documents /\ documents[u] = notified[u].text
    /\ notified[u].kind = "closed" => u \notin DOMAIN documents

(***************************************************************************)
(* main_loop: the requests the server receives and the messages it sends.  *)
(***************************************************************************)
MaxMessages == 2

\* The texts the host opens documents with before it sends requests.
REQ_DOCS == { <<"grave", "grave", "grave", "m", "e", "r", "m", "a", "i", "d", "\n", "p", "i", "e",
    "\n", "grave", "grave", "grave", "\n">>, <<"#", " ", "T", "\n">> }

\* Parameters serde_json::from_value cannot turn into the type the handler asks for.
BadParams == [json |-> "malformed"]

\* The first argument of a command: the URI of the open document, of a
\* document never opened, a text that is no URL, a number.
ARGUMENTS ==
  { <<>>, << [json |-> "string", text |-> DOC_URI] >>,
    << [json |-> "string", text |-> OTHER_URI] >>,
    << [json |-> "string", text |-> <<"d", ".", "m", "d">>] >>,
    << [json |-> "number", text |-> <<"7">>] >> }

\* The requests of the host, without their ids.
REQUESTS ==
  { [method |-> "shutdown", params |-> [json |-> "null"]],
    [method |-> "textDocument/hover", params |-> BadParams],
    [method |-> "textDocument/codeAction", params |-> BadParams],
    [method |-> "workspace/executeCommand", params |-> BadParams] }
  \cup { [method |-> "textDocument/codeAction",
          params |-> [json |-> "object", uri |-> uri, line |-> line]] :
           uri \in {DOC_URI, OTHER_URI}, line \in 0..1 }
  \cup { [method |-> "workspace/executeCommand",
          params |-> [json |-> "object", command |-> command, arguments |-> arguments]] :
           command \in COMMANDS \cup {"mermaid.other"}, arguments \in ARGUMENTS }

\* serde_json::from_value for the parameters of a request.
from_value(params) == [ok |-> params.json = "object", value |-> params]

\* serde_json::from_value::<Url>: a JSON string that parses as an absolute URL.
from_value_url(value) ==
  [ok |-> value.json = "string" /\ contains(value.text, <<":", "/", "/">>), value |-> value.text]

\* Response::new_ok(req.id.clone(), result)
new_ok(id, result) == [kind |-> "response", id |-> id, result |-> result]

\* What a handler did: Ok or Err, the messages it sent, the files it left.
Handled(ok, sent, fs) == [ok |-> ok, sent |-> sent, files |-> fs]

\* The local times of the calls of create_render_edit of one request.
NowFor(doc, now) == [k \in 1..(1 + Len(find_all_mermaid_fences(lines(doc)))) |-> now]

\* handle_code_action from its Request: the parameters, the document of the
\* store, the actions, the response.
CodeActionAnswer(id, r) == Handled(TRUE, <<new_ok(id, r.actions)>>, r.files)

HandleCodeAction(req, docs, fs, now, failing) ==
  IF ~from_value(req.params).ok THEN Handled(FALSE, <<>>, fs)
  ELSE IF req.params.uri \notin DOMAIN docs THEN Handled(FALSE, <<>>, fs)
  ELSE CodeActionAnswer(req.id,
         handle_code_action(req.params.uri, docs[req.params.uri], req.params.line, fs,
                            NowFor(docs[req.params.uri], now), failing))

\* apply_edit, when the command has an edit, and then the response.
ExecuteAnswer(id, r) ==
  Handled(TRUE,
          (IF r.edits = <<>> THEN <<>>
           ELSE << [kind |-> "request", method |-> "workspace/applyEdit", edits |-> r.edits] >>)
            \o <<new_ok(id, "null")>>,
          r.files)

\* handle_execute_command from its Request.
HandleExecuteCommand(req, docs, fs, now, failing) ==
  IF ~from_value(req.params).ok THEN Handled(FALSE, <<>>, fs)
  ELSE IF req.params.command \notin COMMANDS \/ req.params.arguments = <<>>
  THEN Handled(TRUE, <<new_ok(req.id, "null")>>, fs)
  ELSE IF ~from_value_url(req.params.arguments[1]).ok THEN Handled(FALSE, <<>>, fs)
  ELSE ExecuteAnswer(req.id,
         handle_execute_command(req.params.command,
                                from_value_url(req.params.arguments[1]).value, docs, fs,
                                NowFor(IF from_value_url(req.params.arguments[1]).value
                                            \in DOMAIN docs
                                       THEN docs[from_value_url(req.params.arguments[1]).value]
                                       ELSE <<>>, now),
                                failing))

\* handle_request: the two handlers, and a null result for any other method.
handle_request(req, docs, fs, now, failing) ==
  IF req.method = "textDocument/codeAction"
  THEN HandleCodeAction(req, docs, fs, now, failing)
  ELSE IF req.method = "workspace/executeCommand"
  THEN HandleExecuteCommand(req, docs, fs, now, failing)
  ELSE Handled(TRUE, <<new_ok(req.id, "null")>>, fs)

ReqInit ==
  /\ reqLog = <<>>
  /\ outbox = <<>>
  /\ reqPc = "running"

\* main_loop receives a notification about a document.
ReqNotification(not) ==
  /\ reqPc = "running"
  /\ \/ not.method = "textDocument/didOpen" /\ DidOpen(not.uri, not.text)
     \/ not.method = "textDocument/didClose" /\ DidClose(not.uri)

\* main_loop receives a request: shutdown is answered by handle_shutdown and
\* ends the loop; an Err of handle_request is logged and the loop goes on.
ReqRequest(req, failing) ==
  /\ reqPc = "running"
  /\ Len(reqLog) < MaxMessages
  /\ req.id = Len(reqLog) + 1
  /\ reqLog' = Append(reqLog, [id |-> req.id, method |-> req.method])
  /\ IF req.method = "shutdown"
     THEN /\ outbox' = Append(outbox, new_ok(req.id, "null"))
          /\ reqPc' = "stopped"
          /\ files' = files
     ELSE /\ \E r \in {handle_request(req, documents, files, clock, failing)} :
               /\ outbox' = outbox \o r.sent
               /\ files' = r.files
          /\ reqPc' = reqPc
  /\ UNCHANGED <<documents, clock, offers, nreq, roundTrip, pkgVersion, cacheTag, served>>
  /\ UNCHANGED <<sanVars, cacheVars, valVars, scanVars, hashVars, cmdVars, storeVars, loopVars, mmdcVars, raceVars>>

\* The responses sent so far that carry the id.
ResponsesTo(id) ==
  { k \in DOMAIN outbox : outbox[k].kind = "response" /\ outbox[k].id = id }

\* C37: every request the server received other than shutdown is answered
\* with exactly one response carrying its id: a codeAction request for a
\* document that is not in the store, a request with malformed parameters, an
\* executeCommand with an unknown command and a request with an unknown
\* method included.
C37_EveryRequestAnswered ==
  \A i \in DOMAIN reqLog :
    reqLog[i].method # "shutdown" => Cardinality(ResponsesTo(reqLog[i].id)) = 1

\* What the code does answer: every request is answered at most once, and a
\* request with an unknown method or an unknown command exactly once.
C37_AnsweredAtMostOnce ==
  \A i \in DOMAIN reqLog :
    /\ Cardinality(ResponsesTo(reqLog[i].id)) <= 1
    /\ reqLog[i].method \notin {"textDocument/codeAction", "workspace/executeCommand"}
         => Cardinality(ResponsesTo(reqLog[i].id)) = 1

(***************************************************************************)
(* Two render actions for the same code, each in a server process of its   *)
(* own, both working in the directory /w: the steps of create_render_edit  *)
(* that touch the cache file, one system call a step.                      *)
(***************************************************************************)
RACERS == {1, 2}

\* The document each process renders a fence of; both lie in /w.
RACE_URI == <<DOC_URI, OTHER_URI>>

\* The text of both documents and the codes its fence may hold.
RACE_CODES == { <<"p", "i", "e">>, <<"g", "a", "n", "t", "t">> }
RaceLines(code) == <<FENCE_OPEN, code, FENCE>>

\* A byte of a hole: what a write beyond the end of a file leaves before it.
NUL == "nul"

NoRace == [started |-> FALSE, code |-> <<>>, failing |-> FALSE, cached |-> FALSE]

\* The picture the renderer makes of the code when it does not fail.
Picture(code) == render_mermaid(code, {}).out

\* The cache file both processes use.
RaceCachePath(code) == Resolve(cache_path(DOC_URI, code))

\* The file the process saves its picture to.
RaceAssetPath(p) ==
  Resolve(doc_base_dir(RACE_URI[p]).value \o <<"/", ".", "m", "e", "r", "m", "a", "i", "d",
      "/">> \o doc_short_name(RACE_URI[p])
            \o <<"_", "d", "i", "a", "g", "r", "a", "m", "_">> \o timestamp(0) \o <<".", "s", "v",
                "g">>)

\* write(2) of chunk at offset off of a file holding bytes.
WriteAt(bytes, off, chunk) ==
  [i \in 1..(IF Len(bytes) > off + Len(chunk) THEN Len(bytes) ELSE off + Len(chunk)) |->
     IF i > off /\ i <= off + Len(chunk) THEN chunk[i - off]
     ELSE IF i <= Len(bytes) THEN bytes[i]
     ELSE NUL]

RaceInit ==
  /\ raceSetup = NoRace
  /\ raceFs = [p \in {} |-> <<>>]
  /\ racePc = [p \in RACERS |-> "idle"]
  /\ raceSvg = [p \in RACERS |-> <<>>]
  /\ raceOff = [p \in RACERS |-> 0]

\* Both actions are asked for: the code of the fence, whether the renderer
\* fails for it, whether an earlier action left its picture in the cache.
RaceStart(code, failing, cached) ==
  /\ ~raceSetup.started
  /\ raceSetup' = [started |-> TRUE, code |-> code, failing |-> failing, cached |-> cached]
  /\ raceFs' = IF cached THEN write(raceFs, RaceCachePath(code), Picture(code)) ELSE raceFs
  /\ racePc' = [p \in RACERS |-> "check"]
  /\ UNCHANGED <<raceSvg, raceOff>>
  /\ UNCHANGED <<sanVars, cacheVars, docVars, valVars, scanVars, hashVars, cmdVars, storeVars, loopVars, mmdcVars, reqVars>>

\* if cache_path.is_file()
RaceCheck(p) ==
  /\ racePc[p] = "check"
  /\ racePc' = [racePc EXCEPT ![p] =
                  IF is_file(raceFs, RaceCachePath(raceSetup.code)) THEN "read" ELSE "render"]
  /\ UNCHANGED <<raceSetup, raceFs, raceSvg, raceOff>>
  /\ UNCHANGED <<sanVars, cacheVars, docVars, valVars, scanVars, hashVars, cmdVars, storeVars, loopVars, mmdcVars, reqVars>>

\* fs::read_to_string(&cache_path).ok()?
RaceRead(p) ==
  /\ racePc[p] = "read"
  /\ raceSvg' = [raceSvg EXCEPT ![p] = read_to_string(raceFs, RaceCachePath(raceSetup.code)).value]
  /\ racePc' = [racePc EXCEPT ![p] =
                  IF read_to_string(raceFs, RaceCachePath(raceSetup.code)).found
                  THEN "save" ELSE "done"]
  /\ UNCHANGED <<raceSetup, raceFs, raceOff>>
  /\ UNCHANGED <<sanVars, cacheVars, docVars, valVars, scanVars, hashVars, cmdVars, storeVars, loopVars, mmdcVars, reqVars>>

\* match render::render_mermaid(&fence.code)
RaceRender(p) ==
  /\ racePc[p] = "render"
  /\ \E rendered \in {render_mermaid(raceSetup.code,
                                     IF raceSetup.failing THEN {raceSetup.code} ELSE {})} :
       /\ raceSvg' = [raceSvg EXCEPT ![p] = rendered.out]
       /\ racePc' = [racePc EXCEPT ![p] = IF rendered.ok THEN "create" ELSE "done"]
  /\ UNCHANGED <<raceSetup, raceFs, raceOff>>
  /\ UNCHANGED <<sanVars, cacheVars, docVars, valVars, scanVars, hashVars, cmdVars, storeVars, loopVars, mmdcVars, reqVars>>

\* fs::write(&cache_path, &svg), its File::create: the file is there and empty.
RaceCreate(p) ==
  /\ racePc[p] = "create"
  /\ raceFs' = write(raceFs, RaceCachePath(raceSetup.code), <<>>)
  /\ raceOff' = [raceOff EXCEPT ![p] = 0]
  /\ racePc' = [racePc EXCEPT ![p] = IF raceSvg[p] = <<>> THEN "save" ELSE "write"]
  /\ UNCHANGED <<raceSetup, raceSvg>>
  /\ UNCHANGED <<sanVars, cacheVars, docVars, valVars, scanVars, hashVars, cmdVars, storeVars, loopVars, mmdcVars, reqVars>>

\* fs::write(&cache_path, &svg), a write of its write_all: n more bytes.
RaceWrite(p, n) ==
  /\ racePc[p] = "write"
  /\ n \in 1..(Len(raceSvg[p]) - raceOff[p])
  /\ raceFs' = write(raceFs, RaceCachePath(raceSetup.code),
                     WriteAt(raceFs[RaceCachePath(raceSetup.code)], raceOff[p],
                             SubSeq(raceSvg[p], raceOff[p] + 1, raceOff[p] + n)))
  /\ raceOff' = [raceOff EXCEPT ![p] = raceOff[p] + n]
  /\ racePc' = [racePc EXCEPT ![p] =
                  IF raceOff[p] + n = Len(raceSvg[p]) THEN "save" ELSE "write"]
  /\ UNCHANGED <<raceSetup, raceSvg>>
  /\ UNCHANGED <<sanVars, cacheVars, docVars, valVars, scanVars, hashVars, cmdVars, storeVars, loopVars, mmdcVars, reqVars>>

\* Save files: the picture and the code under the time stamp.
RaceSave(p) ==
  /\ racePc[p] = "save"
  /\ raceFs' = SaveAndReplace(RaceLines(raceSetup.code),
                              find_all_mermaid_fences(RaceLines(raceSetup.code))[1], raceFs,
                              doc_base_dir(RACE_URI[p]).value \o <<"/", ".", "m", "e", "r", "m",
                                  "a", "i", "d">>,
                              doc_short_name(RACE_URI[p]), timestamp(0), raceSvg[p]).files
  /\ racePc' = [racePc EXCEPT ![p] = "done"]
  /\ UNCHANGED <<raceSetup, raceSvg, raceOff>>
  /\ UNCHANGED <<sanVars, cacheVars, docVars, valVars, scanVars, hashVars, cmdVars, storeVars, loopVars, mmdcVars, reqVars>>

\* Both actions have returned.
RaceOver == raceSetup.started /\ \A p \in RACERS : racePc[p] = "done"

\* An action alone leaves nothing: the renderer fails and the cache is empty.
NothingAlone == raceSetup.failing /\ ~raceSetup.cached

\* C36: when two render actions for the same code interleave their cache
\* check, render and cache write in any order, the cache file afterwards
\* holds what either action alone would have written, and the picture each
\* action saves as its asset is that content.
C36_RacingRendersAgree ==
  RaceOver =>
    IF NothingAlone
    THEN DOMAIN raceFs = {}
    ELSE /\ raceFs[RaceCachePath(raceSetup.code)] = Picture(raceSetup.code)
         /\ \A p \in RACERS : raceFs[RaceAssetPath(p)] = Picture(raceSetup.code)

\* The part about the cache file alone: it holds the whole picture once both
\* actions have returned.
C36_CacheEntryWhole ==
  RaceOver /\ ~NothingAlone =>
    raceFs[RaceCachePath(raceSetup.code)] = Picture(raceSetup.code)

(***************************************************************************)
(* The input validator (src/validator.rs).  A source is a sequence of      *)
(* blocks [s, n], the text s repeated n times, as the tests of the         *)
(* repository build their large inputs with str::repeat.                   *)
(***************************************************************************)
MAX_SIZE_BYTES == 1048576
MAX_LINES == 5000

\* Mutant of ALLOWED_CHARS: the semicolon is let through.
ALLOWED_CHARS_and_semicolon ==
  Range(LOWER) \cup Range(UPPER) \cup Range(DIGITS) \cup WHITESPACE
    \cup {"-", "_", "[", "]", "(", ")", "{", "}", ":", ",", ".", ";"}

\* The characters of the class of get_allowed_chars_regex.
ALLOWED_CHARS ==
  Range(LOWER) \cup Range(UPPER) \cup Range(DIGITS) \cup WHITESPACE
    \cup {"-", "_", "[", "]", "(", ")", "{", "}", ":", ",", "."}

\* The characters that occur in a source.
CharsOf(source) ==
  UNION {Range(source[i].s) : i \in {j \in DOMAIN source : source[j].n > 0}}

\* str::len of a source, in bytes.
RECURSIVE SourceLen(_)
SourceLen(source) ==
  IF source = <<>> THEN 0
  ELSE Len(Head(source).s) * Head(source).n + SourceLen(Tail(source))

\* The number of line feeds of a source.
RECURSIVE LineFeeds(_)
LineFeeds(source) ==
  IF source = <<>> THEN 0
  ELSE Cardinality({i \in DOMAIN Head(source).s : Head(source).s[i] = "\n"}) * Head(source).n
         + LineFeeds(Tail(source))

\* Whether the last character of a source is a line feed.
EndsWithLineFeed(source) ==
  LET full == {i \in DOMAIN source : source[i].n > 0 /\ source[i].s # <<>>}
  IN full # {} /\ source[Greatest(full)].s[Len(source[Greatest(full)].s)] = "\n"

\* source.lines().count(): a last line without line feed counts.
LineCount(source) ==
  LineFeeds(source)
    + (IF SourceLen(source) > 0 /\ ~EndsWithLineFeed(source) THEN 1 ELSE 0)

ValOk == [ok |-> TRUE, err |-> "", size |-> 0, lines |-> 0, max |-> 0]
ValErr(kind, size, lns, max) ==
  [ok |-> FALSE, err |-> kind, size |-> size, lines |-> lns, max |-> max]

\* Mutant of validate: the size check comes before the check for empty input.
validate_size_first(source) ==
  IF SourceLen(source) > MAX_SIZE_BYTES
  THEN ValErr("TooLarge", SourceLen(source), 0, MAX_SIZE_BYTES)
  ELSE IF CharsOf(source) \subseteq WHITESPACE THEN ValErr("EmptyInput", 0, 0, 0)
  ELSE IF LineCount(source) > MAX_LINES
  THEN ValErr("TooManyLines", 0, LineCount(source), MAX_LINES)
  ELSE IF ~(CharsOf(source) \subseteq ALLOWED_CHARS) THEN ValErr("InvalidCharacters", 0, 0, 0)
  ELSE ValOk

\* InputValidator::validate with the limits of InputValidator::new.
InputValidator_validate(source) ==
  IF CharsOf(source) \subseteq WHITESPACE THEN ValErr("EmptyInput", 0, 0, 0)
  ELSE IF SourceLen(source) > MAX_SIZE_BYTES
  THEN ValErr("TooLarge", SourceLen(source), 0, MAX_SIZE_BYTES)
  ELSE IF LineCount(source) > MAX_LINES
  THEN ValErr("TooManyLines", 0, LineCount(source), MAX_LINES)
  ELSE IF ~(CharsOf(source) \subseteq ALLOWED_CHARS) THEN ValErr("InvalidCharacters", 0, 0, 0)
  ELSE ValOk

(***************************************************************************)
(* Validator runs: a source of up to MaxBlocks blocks is assembled and     *)
(* validated.                                                              *)
(***************************************************************************)
MaxBlocks == 2

VALID_FLOWCHART == <<"g", "r", "a", "p", "h", " ", "T", "D", "\n", " ", " ", " ", " ", "A", "[",
    "S", "t", "a", "r", "t", "]", " ", "-", "-", ">", " ", "B", "[", "E", "n", "d", "]">>
SHELL_COMMAND == <<"g", "r", "a", "p", "h", " ", "T", "D", ";", " ", "r", "m", " ", "-", "r", "f",
    " ", "/">>

\* The texts of the tests of the repository, and short ones to repeat.
BLOCK_TEXTS ==
  { VALID_FLOWCHART, SHELL_COMMAND,
    <<"g", "r", "a", "p", "h", " ", "T", "D", "\n", " ", " ", " ", " ", "A", "[", "grave", "w",
        "h", "o", "a", "m", "i", "grave", "]">>, <<"g", "r", "a", "p", "h", " ", "T", "D", "\n",
            " ", " ", " ", " ", "A", "[", "$", "S", "H", "E", "L", "L", "]">>, <<"g", "r", "a",
                "p", "h", " ", "T", "D", "\n", " ", " ", " ", " ", "A", "[", "t", "e", "s", "t",
                    " ", "|", " ", "g", "r", "e", "p", "]">>,
    <<"g", "r", "a", "p", "h", " ", "T", "D", "\n", " ", " ", " ", " ", "A", "[", "t", "e", "s",
        "t", " ", "&", " ", "b", "g", "]">>, <<"g", "r", "a", "p", "h", " ", "T", "D", "\n", " ",
            " ", " ", " ", "A", "[", "t", "e", "s", "t", " ", ">", " ", "f", "i", "l", "e",
                "]">>, <<"A", "[", "t", "e", "s", "t", " ", "<", " ", "f", "i", "l", "e", "]">>,
    <<"g", "r", "a", "p", "h", " ", "T", "D", "\n", " ", " ", " ", " ", "A", "[", "S", "t", "a",
        "r", "t", "]">>, <<"h", "e", "l", "l", "o", " ", "w", "o", "r", "l", "d">> }

REPEATED_TEXTS == { <<"A">>, <<"l", "i", "n", "e", "\n">>, <<" ">>, <<";">>, <<"\n">> }

BLOCKS ==
  {[s |-> t, n |-> 1] : t \in BLOCK_TEXTS}
    \cup {[s |-> t, n |-> k] :
            t \in REPEATED_TEXTS,
            k \in {1, MAX_LINES, MAX_LINES + 1, MAX_SIZE_BYTES - 1, MAX_SIZE_BYTES,
                   MAX_SIZE_BYTES + 1}}

ValInit ==
  /\ valSource = <<>>
  /\ valPc = "build"
  /\ valResult = ValOk

\* One more block of the source.
ValAppend(b) ==
  /\ valPc = "build"
  /\ Len(valSource) < MaxBlocks
  /\ valSource' = Append(valSource, b)
  /\ UNCHANGED <<valPc, valResult, sanVars, cacheVars, docVars, scanVars, hashVars, cmdVars, storeVars, loopVars, mmdcVars, reqVars, raceVars>>

\* InputValidator::new().validate(source)
ValValidate ==
  /\ valPc = "build"
  /\ valPc' = "done"
  /\ valResult' = InputValidator_validate(valSource)
  /\ UNCHANGED <<valSource, sanVars, cacheVars, docVars, scanVars, hashVars, cmdVars, storeVars, loopVars, mmdcVars, reqVars, raceVars>>

\* What the claims say of a source, stated on its blocks.
Blank(source) == \A i \in DOMAIN source : source[i].n > 0 => Range(source[i].s) \subseteq WHITESPACE
Bytes(source) == SourceLen(source)
SHELL_METACHARACTERS == {";", "$", "grave", "|", "&", ">", "<"}

\* C13: the result of validate is the first failing check of: empty after
\* trimming, more than 1,048,576 bytes, more than 5000 lines, a character
\* outside the whitelist; else Ok.
C13_FirstFailingCheck ==
  valPc = "done" =>
    /\ valResult.err \in {"", "EmptyInput", "TooLarge", "TooManyLines", "InvalidCharacters"}
    /\ valResult.ok = (valResult.err = "")
    /\ Blank(valSource) => valResult.err = "EmptyInput"
    /\ (~Blank(valSource) /\ Bytes(valSource) > 1048576) =>
         (valResult.err = "TooLarge" /\ valResult.size = Bytes(valSource))
    /\ (~Blank(valSource) /\ Bytes(valSource) <= 1048576 /\ LineCount(valSource) > 5000) =>
         (valResult.err = "TooManyLines" /\ valResult.lines = LineCount(valSource))
    /\ (~Blank(valSource) /\ Bytes(valSource) <= 1048576 /\ LineCount(valSource) <= 5000) =>
         /\ valResult.err \in {"", "InvalidCharacters"}
         /\ valResult.ok = (CharsOf(valSource) \subseteq ALLOWED_CHARS)

\* A source of exactly 1,048,576 bytes passed, and so did one of exactly 5000 lines.
C13_Witness ==
  /\ valPc = "done"
  /\ valResult.ok
  /\ \/ Bytes(valSource) = 1048576
     \/ LineCount(valSource) = 5000

C15_ValidFlowchartOk ==
  (valPc = "done" /\ valSource = <<[s |-> VALID_FLOWCHART, n |-> 1]>>) => valResult.ok

\* The diagram-type keywords the specification enumerates.
DIAGRAM_KEYWORDS ==
  { <<"g", "r", "a", "p", "h">>, <<"f", "l", "o", "w", "c", "h", "a", "r", "t">>, <<"s", "e", "q",
      "u", "e", "n", "c", "e", "D", "i", "a", "g", "r", "a", "m">>, <<"c", "l", "a", "s", "s",
          "D", "i", "a", "g", "r", "a", "m">>, <<"s", "t", "a", "t", "e", "D", "i", "a", "g", "r",
              "a", "m">>,
    <<"e", "r", "D", "i", "a", "g", "r", "a", "m">>, <<"j", "o", "u", "r", "n", "e", "y">>, <<"g",
        "a", "n", "t", "t">>, <<"p", "i", "e">>, <<"g", "i", "t", "G", "r", "a", "p",
            "h">>, <<"m", "i", "n", "d", "m", "a", "p">>, <<"t", "i", "m", "e", "l", "i", "n",
                "e">>,
    <<"q", "u", "a", "d", "r", "a", "n", "t", "C", "h", "a", "r", "t">>, <<"r", "e", "q", "u",
        "i", "r", "e", "m", "e", "n", "t", "D", "i", "a", "g", "r", "a", "m">>, <<"z", "e", "n",
            "u", "m", "l">>, <<"s", "a", "n", "k", "e", "y">>, <<"x", "y", "C", "h", "a", "r",
                "t">>, <<"b", "l", "o", "c", "k">> }

\* The first whitespace-delimited token of a text.
FirstToken(s) ==
  SubSeq(s, SkipIn(s, 1, WHITESPACE), SkipNotIn(s, SkipIn(s, 1, WHITESPACE), WHITESPACE) - 1)

\* C16: a source of one unrepeated block that passes the empty, size, line and
\* character checks, and whose first token starts with none of the keywords, is
\* rejected with UnknownDiagramType.
C16_UnknownDiagramTypeRejected ==
  ( /\ valPc = "done"
    /\ Len(valSource) = 1
    /\ valSource[1].n = 1
    /\ ~Blank(valSource)
    /\ Bytes(valSource) <= 1048576
    /\ LineCount(valSource) <= 5000
    /\ CharsOf(valSource) \subseteq ALLOWED_CHARS
    /\ \A k \in DIAGRAM_KEYWORDS : ~StartsWithAt(FirstToken(valSource[1].s), 1, k) ) =>
    valResult.err = "UnknownDiagramType"

\* C12: no render edit is offered for a fence whose code the validator
\* rejects.
C12_RejectedSourceNoEdit ==
  \A k \in DOMAIN offers :
    offers[k].title = "Render Mermaid Diagram" =>
      InputValidator_validate(<<[s |-> offers[k].fence[1].code, n |-> 1]>>).ok

(***************************************************************************)
(* The content digests: ContentHash::from_source of the cache and          *)
(* code_hash of the language server, called on the sources of the tests.   *)
(***************************************************************************)
MaxCalls == 3

HEX_LOWER == <<"0", "1", "2", "3", "4", "5", "6", "7", "8", "9", "a", "b", "c", "d", "e", "f">>
HEX_UPPER == <<"0", "1", "2", "3", "4", "5", "6", "7", "8", "9", "A", "B", "C", "D", "E", "F">>

\* The 8 words of a digest written with the 16 digits given, 8 digits a word.
HexDigits(digits, words) ==
  SubSeq([i \in 1..(8 * Len(words)) |->
            digits[((words[((i - 1) \div 8) + 1][(((i - 1) \div 4) % 2) + 1]
                       \div (16 ^ (3 - ((i - 1) % 4)))) % 16) + 1]],
         1, 8 * Len(words))

\* Mutant of LowerHex: format!("{:X}").
UpperHex(words) == HexDigits(HEX_UPPER, words)

\* format!("{:x}", hasher.finalize())
LowerHex(words) == HexDigits(HEX_LOWER, words)

\* Generate content hash from source code, in a build of the version given
\* (CARGO_PKG_VERSION).
from_source(source, version) == LowerHex(Sha256(as_bytes(source) \o as_bytes(version)))

\* The sources the tests of the repository hash.
TEST_SOURCES ==
  { <<"g", "r", "a", "p", "h", " ", "T", "D", "\n", " ", " ", " ", " ", "A", " ", "-", "-", ">",
      " ", "B">>, <<"g", "r", "a", "p", "h", " ", "T", "D", "\n", " ", " ", " ", " ", "C", " ",
          "-", "-", ">", " ", "D">>, <<"g", "r", "a", "p", "h", " ", "T", "D", "\n", " ", " ",
              "A", " ", "-", "-", ">", " ", "B">>,
    <<"g", "r", "a", "p", "h", " ", "T", "D">>, <<"g", "r", "a", "p", "h", " ", "L", "R">> }

HashInit == hashCalls = <<>>

\* One call of from_source and of code_hash on a source.
HashCall(source, version) ==
  /\ Len(hashCalls) < MaxCalls
  /\ hashCalls' = Append(hashCalls, [source |-> source, version |-> version,
                                     digest |-> from_source(source, version),
                                     code |-> code_hash(source)])
  /\ UNCHANGED <<sanVars, cacheVars, docVars, valVars, scanVars, cmdVars, storeVars, loopVars, mmdcVars, reqVars, raceVars>>

\* C19: two calls on the same source return the same digests, two calls on
\* different sources return different digests, and every digest of from_source
\* is 64 lowercase hex characters that ContentHash::validate accepts.
C19_DigestDeterministicWellFormed ==
  /\ \A i \in DOMAIN hashCalls : \A j \in DOMAIN hashCalls :
       hashCalls[i].version = hashCalls[j].version =>
         /\ (hashCalls[i].digest = hashCalls[j].digest)
              <=> (hashCalls[i].source = hashCalls[j].source)
         /\ (hashCalls[i].code = hashCalls[j].code)
              <=> (hashCalls[i].source = hashCalls[j].source)
  /\ \A i \in DOMAIN hashCalls :
       /\ Len(hashCalls[i].digest) = 64
       /\ Range(hashCalls[i].digest) \subseteq Range(HEX_LOWER)
       /\ validate(hashCalls[i].digest).ok

\* A source was hashed twice and another source once, in one build.
C19_Witness ==
  \E i \in DOMAIN hashCalls : \E j \in DOMAIN hashCalls : \E k \in DOMAIN hashCalls :
    /\ i # j
    /\ hashCalls[i].source = hashCalls[j].source
    /\ hashCalls[k].source # hashCalls[i].source
    /\ hashCalls[i].version = hashCalls[j].version
    /\ hashCalls[k].version = hashCalls[i].version

(***************************************************************************)
(* Specifications.                                                         *)
(***************************************************************************)
SanSpecInit == SanInit /\ CacheInit /\ DocInit /\ ValInit /\ ScanInit /\ HashInit /\ CmdInit /\ StoreInit /\ LoopInit /\ MmdcInit /\ ReqInit /\ RaceInit

SanNext ==
  \/ \E f \in FRAGMENTS : SanAppend(f)
  \/ SanSanitize

SpecSan == SanSpecInit /\ [][SanNext]_vars

CacheSpecInit == CacheInit /\ SanInit /\ DocInit /\ ValInit /\ ScanInit /\ HashInit /\ CmdInit /\ StoreInit /\ LoopInit /\ MmdcInit /\ ReqInit /\ RaceInit

CacheNext ==
  \/ \E h \in DIGESTS : CacheGetPath(h)
  \/ \E h \in DIGESTS : CacheExists(h)
  \/ \E h \in DIGESTS : CacheGet(h)
  \/ \E h \in DIGESTS, content \in CONTENTS : CachePut(h, content)

SpecCache == CacheSpecInit /\ [][CacheNext]_vars

CacheFsSpecInit == CacheFsInit /\ SanInit /\ DocInit /\ ValInit /\ ScanInit /\ HashInit /\ CmdInit /\ StoreInit /\ LoopInit /\ MmdcInit /\ ReqInit /\ RaceInit

CacheFsNext ==
  \/ CacheNext
  \/ \E h \in VALID_DIGESTS, entry \in {NoFile, Symlink, Directory} : EnvSetEntry(h, entry)
  \/ \E f \in {NoFile} \cup {RegularFile(c) : c \in CONTENTS} : EnvSetOutside(f)

SpecCacheFs == CacheFsSpecInit /\ [][CacheFsNext]_vars

DocSpecInit == DocInit /\ SanInit /\ CacheInit /\ ValInit /\ ScanInit /\ HashInit /\ CmdInit /\ StoreInit /\ LoopInit /\ MmdcInit /\ ReqInit /\ RaceInit

DocNext ==
  \/ \E uri \in URIS, text \in DOCS : DidOpen(uri, text)
  \/ \E uri \in URIS, k \in 1..4 : DidChange(uri, k)
  \/ \E uri \in URIS : DidClose(uri)
  \/ \E v \in Range(PKG_VERSIONS) : Restart(v)
  \/ \E uri \in DOMAIN documents :
       \E cursor_line \in 0..Len(lines(documents[uri])),
          ticks \in [1..(1 + Len(find_all_mermaid_fences(lines(documents[uri])))) -> BOOLEAN],
          failing \in SUBSET CodesOf(documents[uri]) :
         CodeActionRequest(uri, cursor_line, ticks, failing)

SpecDoc == DocSpecInit /\ [][DocNext]_vars

ValSpecInit == ValInit /\ SanInit /\ CacheInit /\ DocInit /\ ScanInit /\ HashInit /\ CmdInit /\ StoreInit /\ LoopInit /\ MmdcInit /\ ReqInit /\ RaceInit

ValNext ==
  \/ \E b \in BLOCKS : ValAppend(b)
  \/ ValValidate

SpecVal == ValSpecInit /\ [][ValNext]_vars

ScanSpecInit == ScanInit /\ SanInit /\ CacheInit /\ DocInit /\ ValInit /\ HashInit /\ CmdInit /\ StoreInit /\ LoopInit /\ MmdcInit /\ ReqInit /\ RaceInit

ScanNext ==
  \/ \E line \in SCAN_LINES : ScanAppend(line)
  \/ ScanFind
  \/ \E cursor_line \in 0..Len(scanLines) : ScanLookup(cursor_line)

SpecScan == ScanSpecInit /\ [][ScanNext]_vars

HashSpecInit == HashInit /\ SanInit /\ CacheInit /\ DocInit /\ ValInit /\ ScanInit /\ CmdInit /\ StoreInit /\ LoopInit /\ MmdcInit /\ ReqInit /\ RaceInit

HashNext == \E source \in TEST_SOURCES, version \in Range(PKG_VERSIONS) : HashCall(source, version)

SpecHash == HashSpecInit /\ [][HashNext]_vars

CmdSpecInit == CmdDocInit /\ CmdInit /\ StoreInit /\ SanInit /\ CacheInit /\ ValInit /\ ScanInit /\ HashInit /\ LoopInit /\ MmdcInit /\ ReqInit /\ RaceInit

CmdNext ==
  \/ \E uri \in URIS, text \in CMD_DOCS : applyEdit = <<>> /\ DidOpen(uri, text)
  \/ \E uri \in URIS : applyEdit = <<>> /\ DidClose(uri)
  \/ \E uri \in URIS, command \in {"mermaid.renderSingle", "mermaid.renderAllLightweight"} :
       \E ticks \in [1..RenderCalls(TextOf(uri)) -> BOOLEAN],
          failing \in SUBSET CodesOf(TextOf(uri)) :
         ExecuteCommand(command, uri, ticks, failing)
  \/ \E uri \in URIS, command \in {"mermaid.editSingleSource", "mermaid.editAllSources",
      "mermaid.other"} :
       ExecuteCommand(command, uri, <<FALSE>>, {})
  \/ HostApplyEdit

SpecCmd == CmdSpecInit /\ [][CmdNext]_vars

StoreSpecInit == DocInit /\ StoreInit /\ CmdInit /\ SanInit /\ CacheInit /\ ValInit /\ ScanInit /\ HashInit /\ LoopInit /\ MmdcInit /\ ReqInit /\ RaceInit

StoreNext == \E not \in NOTIFICATIONS : Notification(not)

SpecStore == StoreSpecInit /\ [][StoreNext]_vars

SvgNext ==
  \/ \E f \in SVG_PARTS : SanAppend(f)
  \/ SanSanitize

SpecSvg == SanSpecInit /\ [][SvgNext]_vars

LoopSpecInit == LoopInit /\ SanInit /\ CacheInit /\ DocInit /\ ValInit /\ ScanInit /\ HashInit /\ CmdInit /\ StoreInit /\ MmdcInit /\ ReqInit /\ RaceInit

LoopNext ==
  \/ \E part \in LOOP_PARTS : LoopAppend(part)
  \/ LoopStart
  \/ LoopIterate
  \/ LoopExit

\* The thread that runs the loop is not stopped for ever: weak fairness of
\* the step of the loop, WF_vars(LoopIterate \/ LoopExit), written out with
\* the state predicate that says when that step is enabled.
LoopFairness ==
  \/ []<>(loopPc # "loop" \/ loopIter >= MaxIterations)
  \/ []<><<LoopIterate \/ LoopExit>>_vars

SpecLoop == LoopSpecInit /\ [][LoopNext]_vars /\ LoopFairness

MmdcSpecInit == MmdcInit /\ SanInit /\ CacheInit /\ DocInit /\ ValInit /\ ScanInit /\ HashInit /\ CmdInit /\ StoreInit /\ LoopInit /\ ReqInit /\ RaceInit

MmdcNext ==
  \/ \E value \in MMDC_VALUES : MmdcSetVar("MMDC_PATH", Present(value))
  \/ \E dirs \in PATH_VALUES : MmdcSetVar("PATH", Present(dirs))
  \/ \E key \in {"MMDC_PATH", "PATH"} : MmdcSetVar(key, NotPresent)
  \/ \E path \in MMDC_FILES, kind \in {"file", "exec", "dir"} : MmdcCreate(path, kind)
  \/ MmdcFind

SpecMmdc == MmdcSpecInit /\ [][MmdcNext]_vars

ReqSpecInit == ReqInit /\ DocInit /\ SanInit /\ CacheInit /\ ValInit /\ ScanInit /\ HashInit /\ CmdInit /\ StoreInit /\ LoopInit /\ MmdcInit /\ RaceInit

ReqNext ==
  \/ \E uri \in {DOC_URI}, text \in REQ_DOCS :
       ReqNotification([method |-> "textDocument/didOpen", uri |-> uri, text |-> text])
  \/ \E uri \in {DOC_URI} :
       ReqNotification([method |-> "textDocument/didClose", uri |-> uri, text |-> <<>>])
  \/ \E request \in REQUESTS, failing \in SUBSET {<<"p", "i", "e">>} :
       ReqRequest([id |-> Len(reqLog) + 1, method |-> request.method,
                   params |-> request.params], failing)

SpecReq == ReqSpecInit /\ [][ReqNext]_vars

RaceSpecInit == RaceInit /\ SanInit /\ CacheInit /\ DocInit /\ ValInit /\ ScanInit /\ HashInit /\ CmdInit /\ StoreInit /\ LoopInit /\ MmdcInit /\ ReqInit

RaceNext ==
  \/ \E code \in RACE_CODES, failing \in BOOLEAN, cached \in BOOLEAN :
       RaceStart(code, failing, cached)
  \/ \E p \in RACERS :
       \/ RaceCheck(p)
       \/ RaceRead(p)
       \/ RaceRender(p)
       \/ RaceCreate(p)
       \/ \E n \in {Len(raceSvg[p]) - raceOff[p], (Len(raceSvg[p]) - raceOff[p] + 1) \div 2} :
            RaceWrite(p, n)
       \/ RaceSave(p)

SpecRace == RaceSpecInit /\ [][RaceNext]_vars
====
